---- MODULE Spec2Model ----
(***************************************************************************)
(* Verification model of the NBA clutch-analytics pipeline:                *)
(*   modules/data_loader.py  (convert_min_to_decimal, calculate_cpi,       *)
(*                            process_player_data, process_team_data,      *)
(*                            run_processing)                              *)
(*   modules/models.py       (get_model_data, train_model, get_predictions)*)
(*   modules/utils.py        (load_data and the st.cache decorators)       *)
(*                                                                         *)
(* Floating point numbers are modelled as exact rationals <<n, d>> in      *)
(* lowest terms with d > 0, extended with the IEEE specials                *)
(*   NaN = <<0,0>>, +inf = <<1,0>>, -inf = <<-1,0>>.                       *)
(***************************************************************************)
EXTENDS Integers, Sequences, FiniteSets, TLC

VARIABLES
    cpi_pc,     \* calculate_cpi driver: "input" before the call, "scored" after
    cpi_df,     \* the table handed to calculate_cpi (with CPI once scored)
    pc,         \* position of run_processing
    run,        \* number of the build being run
    file_games, file_details, file_teams,  \* the raw files: [exists, rows]
    games_raw, details_raw, teams_raw,     \* the tables loaded from them
    player_performance, team_performance, \* the processors' return values
    player_file, team_file,             \* the processed files: [exists, rows]
    first_player, first_team,           \* the tables produced by build 1
    model_pc,   \* get_model_data driver: "input" before the call, "done" after
    player_df,  \* the processed player table handed to models.py
    model_data, \* the return value of get_model_data
    train_pc,   \* position of the model page: "input", "trained", "no_model", "predicted"
    train_X, train_y,  \* the training table handed to train_model
    train_split,       \* the rows train_test_split put in the test set
    trained,           \* the return value of train_model
    selected_season,   \* the season handed to get_predictions
    results_df,        \* the return value of get_predictions
    min_pc,     \* convert_min_to_decimal driver: "input" before the call, "done" after
    min_cell,   \* the MIN cell handed to convert_min_to_decimal
    min_shape,  \* the ':'-separated pieces the cell's text was written from
    min_out,    \* the return value of convert_min_to_decimal
    disk,       \* the processed files read by load_data: [player, team]
    cache_load,       \* st.cache_data of load_data: <<>> or <<entry>>
    cache_model_data, \* st.cache_data of get_model_data: entries by argument
    cache_train,      \* st.cache_resource of train_model: entries by arguments
    last_call,  \* the last cached call: what it was given and what it returned
    steps,      \* number of calls and file writes so far
    team_pc,    \* process_team_data driver: "input" before the call, "done" after
    team_games, \* the games table handed to process_team_data
    team_teams, \* the teams table handed to process_team_data
    team_out    \* the return value of process_team_data

varsCPI == <<cpi_pc, cpi_df>>

varsFiles == <<file_games, file_details, file_teams>>

varsBuild ==
    <<pc, run, file_games, file_details, file_teams,
      games_raw, details_raw, teams_raw,
      player_performance, team_performance, player_file, team_file,
      first_player, first_team>>

varsModel == <<model_pc, player_df, model_data>>

varsTrain ==
    <<train_pc, train_X, train_y, train_split, trained, selected_season, results_df>>

varsMin == <<min_pc, min_cell, min_shape, min_out>>

varsCache == <<disk, cache_load, cache_model_data, cache_train, last_call, steps>>

varsTeam == <<team_pc, team_games, team_teams, team_out>>

vars == <<varsCPI, varsBuild, varsModel, varsTrain, varsMin, varsCache, varsTeam>>

(***************************************************************************)
(* Float arithmetic                                                        *)
(***************************************************************************)
Abs(x) == IF x < 0 THEN -x ELSE x

Sign(x) == IF x < 0 THEN -1 ELSE IF x > 0 THEN 1 ELSE 0

RECURSIVE GCD(_, _)
GCD(a, b) == IF b = 0 THEN a ELSE GCD(b, a % b)

NaN == <<0, 0>>

PosInf == <<1, 0>>

NegInf == <<-1, 0>>

IsNaN(x) == x = NaN

IsInf(x) == x = PosInf \/ x = NegInf

IsFinite(x) == x[2] # 0

\* n/d divided by g, the denominator made positive
Reduced(n, d, g) == <<(Sign(d) * n) \div g, (Sign(d) * d) \div g>>

RNorm(n, d) ==
    IF d = 0 THEN <<Sign(n), 0>> ELSE Reduced(n, d, GCD(Abs(n), Abs(d)))

F(n) == <<n, 1>>

FNeg(a) == <<-a[1], a[2]>>

\* a + b over the least common denominator, g being the greatest common
\* divisor of the two denominators
AddOver(a, b, g) ==
    RNorm(a[1] * (b[2] \div g) + b[1] * (a[2] \div g), (a[2] \div g) * b[2])

FAdd(a, b) ==
    IF IsNaN(a) \/ IsNaN(b) THEN NaN
    ELSE IF IsInf(a) /\ IsInf(b) THEN (IF a = b THEN a ELSE NaN)
    ELSE IF IsInf(a) THEN a
    ELSE IF IsInf(b) THEN b
    ELSE AddOver(a, b, GCD(a[2], b[2]))

FSub(a, b) == FAdd(a, FNeg(b))

FMul(a, b) ==
    IF IsNaN(a) \/ IsNaN(b) THEN NaN
    ELSE IF IsInf(a) \/ IsInf(b) THEN <<Sign(a[1]) * Sign(b[1]), 0>>
    ELSE RNorm(a[1] * b[1], a[2] * b[2])

FDiv(a, b) ==
    IF IsNaN(a) \/ IsNaN(b) THEN NaN
    ELSE IF IsInf(a) /\ IsInf(b) THEN NaN
    ELSE IF IsInf(a) THEN <<a[1] * (IF b[1] < 0 THEN -1 ELSE 1), 0>>
    ELSE IF IsInf(b) THEN F(0)
    ELSE IF b[1] = 0 THEN <<Sign(a[1]), 0>>
    ELSE RNorm(a[1] * b[2], a[2] * b[1])

FLt(a, b) ==
    IF IsNaN(a) \/ IsNaN(b) THEN FALSE
    ELSE IF IsFinite(a) /\ IsFinite(b) THEN a[1] * b[2] < b[1] * a[2]
    ELSE a # b /\ (a = NegInf \/ b = PosInf)

FEq(a, b) == ~IsNaN(a) /\ ~IsNaN(b) /\ a = b

FNe(a, b) == ~FEq(a, b)

FLe(a, b) == FLt(a, b) \/ FEq(a, b)

FGe(a, b) == FLe(b, a)

FGt(a, b) == FLt(b, a)

FAbs(x) == IF FLt(x, F(0)) THEN FNeg(x) ELSE x

\* sum of f[i] over a finite set of indices
RECURSIVE FSum(_, _)
FSum(f, S) ==
    IF S = {} THEN F(0)
    ELSE LET i == CHOOSE j \in S : TRUE
         IN  FAdd(f[i], FSum(f, S \ {i}))

\* smallest / largest non-NaN value of f over S (NaN when there is none)
FMin(f, S) ==
    LET V == {i \in S : ~IsNaN(f[i])}
    IN  IF V = {} THEN NaN
        ELSE f[CHOOSE i \in V : \A j \in V : FLe(f[i], f[j])]

FMax(f, S) ==
    LET V == {i \in S : ~IsNaN(f[i])}
    IN  IF V = {} THEN NaN
        ELSE f[CHOOSE i \in V : \A j \in V : FGe(f[i], f[j])]

\* mean of the non-NaN values of f over S (NaN when there is none)
FMean(f, S) ==
    LET V == {i \in S : ~IsNaN(f[i])}
    IN  FDiv(FSum(f, V), F(Cardinality(V)))

(***************************************************************************)
(* calculate_cpi (data_loader.py)                                          *)
(*                                                                         *)
(* A CPI value is [rat |-> q, zs |-> <<t1, ..., tk>>] and denotes          *)
(*     q + t1[1]/sqrt(t1[2]) + ... + tk[1]/sqrt(tk[2]).                    *)
(* The low-volume path and the constants produce zs = <<>>; the z-score    *)
(* path produces one term per scaled metric, whose radicand is the         *)
(* population variance of the metric (1 when the variance is 0, as         *)
(* StandardScaler does).                                                   *)
(***************************************************************************)
min_clutch_gp == 5

baseline_score == -2

MetricsToScale ==
    <<"PPG_clutch", "FG_PCT_clutch", "APG_clutch", "TOPG_clutch",
      "PLUS_MINUS_PER_GAME_clutch">>

WeightsHigh ==
    [PPG_clutch |-> <<3, 10>>, FG_PCT_clutch |-> <<1, 4>>,
     APG_clutch |-> <<3, 20>>, TOPG_clutch |-> <<-3, 20>>,
     PLUS_MINUS_PER_GAME_clutch |-> <<3, 20>>]

WeightsLow ==
    [PPG_clutch |-> <<3, 10>>, FG_PCT_clutch |-> <<1, 4>>,
     APG_clutch |-> <<3, 20>>, TOPG_clutch |-> <<-3, 20>>,
     PLUS_MINUS_PER_GAME_clutch |-> <<3, 20>>]

CpiNum(x) == [rat |-> x, zs |-> <<>>]

CpiIsNull(c) == IsNaN(c.rat) \/ \E k \in DOMAIN c.zs : IsNaN(c.zs[k][1])

\* mutant: the tier boundary excludes exactly min_clutch_gp games
HighVolume_Strict(df) == {i \in DOMAIN df : df[i].GP_clutch > min_clutch_gp}

HighVolume(df) == {i \in DOMAIN df : df[i].GP_clutch >= min_clutch_gp}

LowVolume(df) ==
    {i \in DOMAIN df : df[i].GP_clutch > 0 /\ df[i].GP_clutch < min_clutch_gp}

\* tier.replace([inf, -inf], nan) followed by fillna(column mean)
ReplaceInf(x) == IF IsInf(x) THEN NaN ELSE x

CleanColumn(df, S, col) ==
    LET f == [i \in S |-> ReplaceInf(df[i][col])]
        m == FMean(f, S)
    IN  [i \in S |-> IF IsNaN(f[i]) THEN m ELSE f[i]]

\* StandardScaler: population variance of the column, zero scale replaced by 1
SquaredDeviations(f, S, m) == [i \in S |-> FMul(FSub(f[i], m), FSub(f[i], m))]

ScalerVar(f, S) == FMean(SquaredDeviations(f, S, FMean(f, S)), S)

\* sklearn's _handle_zeros_in_scale: a scale of 0 becomes 1
HandleZeros(v) == IF FEq(v, F(0)) THEN F(1) ELSE v

\* mutant: the scale of a constant column is left at 0
ScalerRadicand_KeepZero(f, S) == ScalerVar(f, S)

ScalerRadicand(f, S) == HandleZeros(ScalerVar(f, S))

\* StandardScaler.fit_transform of one column of the tier S, times the
\* metric's weight: weight * (x - mean) / sqrt(radicand) is kept as
\* <<numerator, radicand>>; a radicand that is not positive is divided out
\* at once (x/0, x/NaN)
ScaledTerm(num, rad) ==
    IF FGt(rad, F(0)) THEN <<num, rad>> ELSE <<FDiv(num, rad), F(1)>>

Standardized(f, S, col, m, rad) ==
    [i \in S |-> ScaledTerm(FMul(FSub(f[i], m), WeightsHigh[col]), rad)]

FitTransform(f, S, col) ==
    Standardized(f, S, col, FMean(f, S), ScalerRadicand(f, S))

ScaledColumn(df, S, col) == FitTransform(CleanColumn(df, S, col), S, col)

\* cpi_high: the weighted sum of the scaled metrics, per high-volume record
CpiHigh(df) ==
    LET H == HighVolume(df)
        scaled == [k \in DOMAIN MetricsToScale |-> ScaledColumn(df, H, MetricsToScale[k])]
    IN  [i \in H |-> [rat |-> F(0),
                      zs  |-> [k \in DOMAIN MetricsToScale |-> scaled[k][i]]]]

\* mutant: min-max normalisation without the max = min guard
MinMaxScaled(f, L, col_min, col_max) ==
    [i \in L |-> FDiv(FSub(f[i], col_min), FSub(col_max, col_min))]

\* (x - min) / (max - min) when max != min, else 0.5 for every record
MinMax(f, L, col_min, col_max) ==
    IF FNe(col_max, col_min) THEN MinMaxScaled(f, L, col_min, col_max)
    ELSE [i \in L |-> <<1, 2>>]

NormalizedColumn(f, L) == MinMax(f, L, FMin(f, L), FMax(f, L))

\* mutant: min-max normalisation without the max = min guard
NormalizedMetric_NoGuard(df, col) ==
    LET L == LowVolume(df)
        f == CleanColumn(df, L, col)
    IN  MinMaxScaled(f, L, FMin(f, L), FMax(f, L))

\* min-max normalisation inside the low-volume tier
NormalizedMetric(df, col) ==
    NormalizedColumn(CleanColumn(df, LowVolume(df), col), LowVolume(df))

LowContribution(col, normalized) ==
    IF col = "TOPG_clutch"
    THEN FMul(FSub(F(1), normalized), WeightsLow[col])
    ELSE FMul(normalized, WeightsLow[col])

\* cpi_low += ... over weights.items(), for record i
RECURSIVE LowWeightedSum(_, _, _)
LowWeightedSum(normalized_metrics, i, k) ==
    IF k = 0 THEN F(0)
    ELSE FAdd(LowWeightedSum(normalized_metrics, i, k - 1),
              LowContribution(MetricsToScale[k], normalized_metrics[k][i]))

\* mutant: the games played are not divided by min_clutch_gp
GamesFactor_Undivided(df, i) == F(df[i].GP_clutch)

GamesFactor(df, i) == FDiv(F(df[i].GP_clutch), F(min_clutch_gp))

ClipLower(x, lo) == IF FLt(x, lo) THEN lo ELSE x

\* cpi_low: per low-volume record
CpiLow(df) ==
    LET L == LowVolume(df)
        normalized_metrics ==
            [k \in DOMAIN MetricsToScale |-> NormalizedMetric(df, MetricsToScale[k])]
    IN  [i \in L |->
            ClipLower(FMul(LowWeightedSum(normalized_metrics, i, Len(MetricsToScale)),
                           GamesFactor(df, i)),
                      F(baseline_score))]

calculate_cpi(df) ==
    LET H == HighVolume(df)
        L == LowVolume(df)
        cpi_high == CpiHigh(df)
        cpi_low == CpiLow(df)
        cpi(i) == IF H = {} /\ L = {} THEN CpiNum(F(0))
                  ELSE IF i \in L THEN CpiNum(cpi_low[i])
                  ELSE IF i \in H THEN cpi_high[i]
                  ELSE CpiNum(NaN)
    IN  [i \in DOMAIN df |-> [CPI |-> cpi(i)] @@ df[i]]

(***************************************************************************)
(* convert_min_to_decimal (data_loader.py)                                 *)
(*                                                                         *)
(* A string is a sequence of one-character strings.  A MIN cell is a       *)
(* record [kind, s, v]: kind = "str" holds the text s as read from the     *)
(* file, kind = "num" holds the float v (NaN for a missing value); the     *)
(* column holds floats once process_player_data has converted it in place. *)
(***************************************************************************)
StrCell(s) == [kind |-> "str", s |-> s, v |-> NaN]

NumCell(v) == [kind |-> "num", s |-> <<>>, v |-> v]

DigitValue ==
    "0" :> 0 @@ "1" :> 1 @@ "2" :> 2 @@ "3" :> 3 @@ "4" :> 4 @@
    "5" :> 5 @@ "6" :> 6 @@ "7" :> 7 @@ "8" :> 8 @@ "9" :> 9

DigitChar == <<"0", "1", "2", "3", "4", "5", "6", "7", "8", "9">>

IsDigits(s) == \A i \in DOMAIN s : s[i] \in DOMAIN DigitValue

RECURSIVE DigitsToNat(_)
DigitsToNat(s) ==
    IF s = <<>> THEN 0
    ELSE 10 * DigitsToNat(SubSeq(s, 1, Len(s) - 1)) + DigitValue[s[Len(s)]]

RECURSIVE NatToDigits(_)
NatToDigits(n) ==
    IF n < 10 THEN <<DigitChar[n + 1]>>
    ELSE NatToDigits(n \div 10) \o <<DigitChar[(n % 10) + 1]>>

RECURSIVE Pow10(_)
Pow10(k) == IF k = 0 THEN 1 ELSE 10 * Pow10(k - 1)

\* the exception float() raises on text that is not a number
ValueError == <<0, -1>>

\* float(text): optional sign, digits with at most one '.', or nan / inf
SignOf(s) == IF s # <<>> /\ s[1] = "-" THEN -1 ELSE 1

Unsigned(s) == IF s # <<>> /\ s[1] \in {"-", "+"} THEN Tail(s) ELSE s

Dots(body) == {i \in DOMAIN body : body[i] = "."}

\* the digits before and after the (single) dot
IntegerPart(body, dots) ==
    IF dots = {} THEN body ELSE SubSeq(body, 1, (CHOOSE i \in dots : TRUE) - 1)

FractionPart(body, dots) ==
    IF dots = {} THEN <<>>
    ELSE SubSeq(body, (CHOOSE i \in dots : TRUE) + 1, Len(body))

ParseDecimal(sgn, ip, fp) ==
    IF ~IsDigits(ip) \/ ~IsDigits(fp) \/ (ip = <<>> /\ fp = <<>>)
    THEN ValueError
    ELSE RNorm(sgn * (DigitsToNat(ip) * Pow10(Len(fp)) + DigitsToNat(fp)),
               Pow10(Len(fp)))

ParseUnsigned(sgn, body, dots) ==
    IF body = <<"n", "a", "n">> THEN NaN
    ELSE IF body = <<"i", "n", "f">> THEN <<sgn, 0>>
    ELSE IF Cardinality(dots) > 1 THEN ValueError
    ELSE ParseDecimal(sgn, IntegerPart(body, dots), FractionPart(body, dots))

ParseFloat(s) == ParseUnsigned(SignOf(s), Unsigned(s), Dots(Unsigned(s)))

\* text.split(':')
RECURSIVE Split(_)
Split(s) ==
    LET colons == {i \in DOMAIN s : s[i] = ":"}
        c == CHOOSE i \in colons : \A j \in colons : i <= j
    IN  IF colons = {} THEN <<s>>
        ELSE <<SubSeq(s, 1, c - 1)>> \o Split(SubSeq(s, c + 1, Len(s)))

\* str(x) of a float: sign, integer digits, '.', fraction digits (at least
\* one).  The minutes of the model are multiples of 1/4, whose decimal
\* expansion is exact; other fractions are cut after FracDigits digits.
FracDigits == 4

RECURSIVE PadLeft(_, _)
PadLeft(s, n) == IF Len(s) >= n THEN s ELSE PadLeft(<<"0">> \o s, n)

RECURSIVE StripZeros(_)
StripZeros(s) ==
    IF Len(s) > 1 /\ s[Len(s)] = "0" THEN StripZeros(SubSeq(s, 1, Len(s) - 1)) ELSE s

\* the decimal text of a / d, a >= 0
DecimalText(a, d) ==
    NatToDigits(a \div d) \o <<".">>
    \o StripZeros(PadLeft(NatToDigits(((a % d) * Pow10(FracDigits)) \div d),
                          FracDigits))

WithSign(negative, text) == IF negative THEN <<"-">> \o text ELSE text

FloatToStr(x) ==
    IF IsNaN(x) THEN <<"n", "a", "n">>
    ELSE IF x = PosInf THEN <<"i", "n", "f">>
    ELSE IF x = NegInf THEN <<"-", "i", "n", "f">>
    ELSE WithSign(x[1] < 0, DecimalText(Abs(x[1]), x[2]))

Sentinels == {<<"D", "N", "P">>, <<"N", "/", "A">>, <<>>}

\* float(part) of every part
Floats(parts) == [i \in DOMAIN parts |-> ParseFloat(parts[i])]

\* the arithmetic of the try block on the converted parts p
Minutes(p) ==
    IF Len(p) = 2
    THEN IF p[1] = ValueError \/ p[2] = ValueError THEN F(0)
         ELSE FAdd(p[1], FDiv(p[2], F(60)))
    ELSE IF Len(p) = 3
    THEN IF p[1] = ValueError \/ p[2] = ValueError \/ p[3] = ValueError THEN F(0)
         ELSE FAdd(FAdd(FMul(p[1], F(60)), p[2]), FDiv(p[3], F(60)))
    ELSE IF p[1] = ValueError THEN F(0) ELSE p[1]

\* mutant: a bare number is read as seconds
MinutesFromParts_BareSeconds(parts) ==
    IF Len(parts) \in {2, 3} THEN Minutes(Floats(parts))
    ELSE IF ParseFloat(parts[1]) = ValueError THEN F(0)
    ELSE FDiv(ParseFloat(parts[1]), F(60))

\* the try block: 2 parts MM:SS, 3 parts HH:MM:SS, otherwise float(parts[0]);
\* a ValueError from any float() conversion gives 0.0
MinutesFromParts(parts) == Minutes(Floats(parts))

convert_min_to_decimal(min_str) ==
    IF min_str.kind = "num" /\ IsNaN(min_str.v) THEN F(0)
    ELSE IF min_str.kind = "str" /\ min_str.s \in Sentinels THEN F(0)
    ELSE MinutesFromParts(Split(IF min_str.kind = "str" THEN min_str.s
                                ELSE FloatToStr(min_str.v)))

(***************************************************************************)
(* process_player_data (data_loader.py)                                    *)
(*                                                                         *)
(* A table is a sequence of records whose fields are the column names.     *)
(* Joined rows are kept as index triples <<detail row, game row, team      *)
(* row>>, so that duplicate rows stay distinct.                            *)
(***************************************************************************)
stat_cols ==
    <<"FGM", "FGA", "FG3M", "FG3A", "FTM", "FTA", "OREB", "DREB",
      "REB", "AST", "STL", "BLK", "TO", "PF", "PTS", "PLUS_MINUS">>

StatCols == {stat_cols[k] : k \in DOMAIN stat_cols}

\* 'TO' is renamed to 'TOV' after the aggregation
Renamed(col) == IF col = "TO" THEN "TOV" ELSE col

pivot_stat_cols == [k \in DOMAIN stat_cols |-> Renamed(stat_cols[k])]

\* order of the strings used as names (index sort of the pivot)
StringRank ==
    "A. Able" :> 1 @@ "B. Baker" :> 2 @@
    "Boston Celtics" :> 3 @@ "Chicago Bulls" :> 4

\* step 1: fillna(0), astype(float) and the MIN conversion, done in place
CleanDetails(details) ==
    [i \in DOMAIN details |->
        [f \in DOMAIN details[i] |->
            IF f \in StatCols
            THEN (IF IsNaN(details[i][f]) THEN F(0) ELSE details[i][f])
            ELSE IF f = "MIN" THEN NumCell(convert_min_to_decimal(details[i][f]))
            ELSE details[i][f]]]

\* rows with MIN > 0, inner-joined with games on GAME_ID and teams on TEAM_ID
MergedRows(games, cleaned, teams) ==
    {m \in (DOMAIN cleaned) \X (DOMAIN games) \X (DOMAIN teams) :
        /\ FGt(cleaned[m[1]].MIN.v, F(0))
        /\ cleaned[m[1]].GAME_ID = games[m[2]].GAME_ID
        /\ cleaned[m[1]].TEAM_ID = teams[m[3]].TEAM_ID}

PivotKey(games, cleaned, teams, m) ==
    <<cleaned[m[1]].PLAYER_ID, cleaned[m[1]].PLAYER_NAME,
      teams[m[3]].TEAM_NAME, games[m[2]].SEASON>>

KeyLess(a, b) ==
    \/ a[1] < b[1]
    \/ a[1] = b[1] /\ StringRank[a[2]] < StringRank[b[2]]
    \/ a[1] = b[1] /\ a[2] = b[2] /\ StringRank[a[3]] < StringRank[b[3]]
    \/ a[1] = b[1] /\ a[2] = b[2] /\ a[3] = b[3] /\ a[4] < b[4]

RECURSIVE SortKeys(_)
SortKeys(K) ==
    IF K = {} THEN <<>>
    ELSE LET k == CHOOSE x \in K : \A y \in K \ {x} : KeyLess(x, y)
         IN  <<k>> \o SortKeys(K \ {k})

\* mutant: the denominator is used as it is
ReplaceZero_Keep(x) == x

\* series.replace(0, 1)
ReplaceZero(x) == IF FEq(x, F(0)) THEN F(1) ELSE x

\* np.where(MIN == 1, 0, GP)
ResetGP(min_col, gp_col) == IF FEq(min_col, F(1)) THEN 0 ELSE gp_col

\* step 3 for one pivot row and one regime: the group's totals, 0 after
\* fillna(0) when the player has no row in the regime
GroupSum(cleaned, G, col) ==
    IF G = {} THEN F(0) ELSE FSum([m \in G |-> cleaned[m[1]][col]], G)

GroupMinutes(cleaned, G) ==
    IF G = {} THEN F(0) ELSE FSum([m \in G |-> cleaned[m[1]].MIN.v], G)

GroupTotals(cleaned, G) ==
    [c \in {pivot_stat_cols[k] : k \in DOMAIN pivot_stat_cols} |->
        GroupSum(cleaned, G, IF c = "TOV" THEN "TO" ELSE c)]

\* GP of the regime for the division: the group's size; 0 after fillna(0)
\* when the regime is absent, then 1 after replace(0, 1)
GroupGames(G) == IF Cardinality(G) = 0 THEN 1 ELSE Cardinality(G)

\* steps 4-5: the rates and the stored GP and MIN, next to the totals
RegimeRates(totals, min_col, gp_col) ==
    [PPG |-> FDiv(totals.PTS, F(gp_col)),
     APG |-> FDiv(totals.AST, F(gp_col)),
     RPG |-> FDiv(totals.REB, F(gp_col)),
     TOPG |-> FDiv(totals.TOV, F(gp_col)),
     PLUS_MINUS_PER_GAME |-> FDiv(totals.PLUS_MINUS, F(gp_col)),
     FG_PCT |-> FDiv(totals.FGM, ReplaceZero(totals.FGA)),
     FG3_PCT |-> FDiv(totals.FG3M, ReplaceZero(totals.FG3A)),
     FT_PCT |-> FDiv(totals.FTM, ReplaceZero(totals.FTA)),
     AST_TO_RATIO |-> FDiv(totals.AST, ReplaceZero(totals.TOV)),
     MIN |-> min_col,
     GP |-> ResetGP(min_col, gp_col)]
    @@ totals

RegimeColumns(cleaned, G) ==
    RegimeRates(GroupTotals(cleaned, G), ReplaceZero(GroupMinutes(cleaned, G)),
                GroupGames(G))

\* the column names of one regime: <name>_clutch / <name>_non_clutch
Suffixed(rec, suffix) ==
    LET name(c) == c \o "_" \o suffix
    IN  [n \in {name(c) : c \in DOMAIN rec} |->
            rec[CHOOSE c \in DOMAIN rec : name(c) = n]]

\* the joined rows of one pivot key and one clutch flag
RegimeGroup(games, cleaned, teams, key, flag) ==
    {m \in MergedRows(games, cleaned, teams) :
        /\ PivotKey(games, cleaned, teams, m) = key
        /\ games[m[2]].IS_CLUTCH_GAME = flag}

\* the flattened pivot row with the three differentials
JoinRegimes(key, c, n) ==
    [PLAYER_ID |-> key[1], PLAYER_NAME |-> key[2],
     TEAM_NAME |-> key[3], SEASON |-> key[4],
     FG_PCT_diff |-> FSub(c.FG_PCT, n.FG_PCT),
     PPG_diff |-> FSub(c.PPG, n.PPG),
     AST_TO_RATIO_diff |-> FSub(c.AST_TO_RATIO, n.AST_TO_RATIO)]
    @@ Suffixed(c, "clutch") @@ Suffixed(n, "non_clutch")

PlayerRow(games, cleaned, teams, key) ==
    JoinRegimes(key,
                RegimeColumns(cleaned, RegimeGroup(games, cleaned, teams, key, TRUE)),
                RegimeColumns(cleaned, RegimeGroup(games, cleaned, teams, key, FALSE)))

\* the pivot has a column pair per clutch flag present in the joined rows;
\* selecting the columns of an absent flag raises KeyError
PivotFlags(games, cleaned, teams) ==
    {games[m[2]].IS_CLUTCH_GAME : m \in MergedRows(games, cleaned, teams)}

PivotKeys(games, cleaned, teams) ==
    SortKeys({PivotKey(games, cleaned, teams, m) :
                 m \in MergedRows(games, cleaned, teams)})

PivotRows(games, cleaned, teams, keys) ==
    [i \in DOMAIN keys |-> PlayerRow(games, cleaned, teams, keys[i])]

\* steps 2-6 on the cleaned table
PlayerTable(games, cleaned, teams) ==
    IF PivotFlags(games, cleaned, teams) # {TRUE, FALSE}
    THEN [raised |-> TRUE, details |-> cleaned, table |-> <<>>]
    ELSE [raised |-> FALSE, details |-> cleaned,
          table |-> calculate_cpi(PivotRows(games, cleaned, teams,
                                            PivotKeys(games, cleaned, teams)))]

\* result: raised = TRUE when the function leaves by an exception; details is
\* the caller's table after the in-place cleaning; table is the return value
process_player_data(games, details, teams) ==
    PlayerTable(games, CleanDetails(details), teams)

(***************************************************************************)
(* process_team_data (data_loader.py)                                      *)
(***************************************************************************)
\* one row per team and game: <<game row, side>>
TeamGames(games_t) == (DOMAIN games_t) \X {"home", "visitor"}

TeamOf(games_t, tg) ==
    IF tg[2] = "home" THEN games_t[tg[1]].HOME_TEAM_ID
    ELSE games_t[tg[1]].VISITOR_TEAM_ID

\* the visitor's win flag is the home flag inverted
WinOf(games_t, tg) ==
    IF tg[2] = "home" THEN games_t[tg[1]].HOME_TEAM_WINS
    ELSE 1 - games_t[tg[1]].HOME_TEAM_WINS

RECURSIVE IntSum(_, _)
IntSum(f, S) ==
    IF S = {} THEN 0
    ELSE LET i == CHOOSE j \in S : TRUE IN f[i] + IntSum(f, S \ {i})

TeamKeyLess(a, b) == a[1] < b[1] \/ (a[1] = b[1] /\ a[2] < b[2])

RECURSIVE SortTeamKeys(_)
SortTeamKeys(K) ==
    IF K = {} THEN <<>>
    ELSE LET k == CHOOSE x \in K : \A y \in K \ {x} : TeamKeyLess(x, y)
         IN  <<k>> \o SortTeamKeys(K \ {k})

\* GP, WINS and WIN_PCT of one (team, season, flag) group; a combination
\* without games is NaN in the pivot and 0 after fillna(0)
TeamRecord(gp, wins) ==
    [GP |-> gp, WINS |-> wins, WIN_PCT |-> FDiv(F(wins), F(gp))]

TeamRegimeColumns(games_t, G) ==
    IF G = {} THEN [GP |-> 0, WINS |-> 0, WIN_PCT |-> F(0)]
    ELSE TeamRecord(Cardinality(G), IntSum([tg \in G |-> WinOf(games_t, tg)], G))

\* the pivot row of one (team, season): columns exist only for the clutch
\* flags that occur in the games table
TeamPivotRow(games_t, key) ==
    LET G(flag) == {tg \in TeamGames(games_t) :
                       /\ TeamOf(games_t, tg) = key[1]
                       /\ games_t[tg[1]].SEASON = key[2]
                       /\ games_t[tg[1]].IS_CLUTCH_GAME = flag}
        flags == {games_t[j].IS_CLUTCH_GAME : j \in DOMAIN games_t}
        c == IF TRUE \in flags
             THEN Suffixed(TeamRegimeColumns(games_t, G(TRUE)), "clutch") ELSE <<>>
        n == IF FALSE \in flags
             THEN Suffixed(TeamRegimeColumns(games_t, G(FALSE)), "non_clutch") ELSE <<>>
    IN  [TEAM_ID |-> key[1], SEASON |-> key[2]] @@ c @@ n

\* team_pivot.merge(teams, on='TEAM_ID'): inner join in the order of the pivot
RECURSIVE MergeTeamNames(_, _, _)
MergeTeamNames(pivot, teams_t, t) ==
    IF pivot = <<>> THEN <<>>
    ELSE IF t > Len(teams_t) THEN MergeTeamNames(Tail(pivot), teams_t, 1)
    ELSE (IF teams_t[t].TEAM_ID = Head(pivot).TEAM_ID
          THEN <<[TEAM_NAME |-> teams_t[t].TEAM_NAME] @@ Head(pivot)>>
          ELSE <<>>)
         \o MergeTeamNames(pivot, teams_t, t + 1)

TeamKeys(games_t) ==
    SortTeamKeys({<<TeamOf(games_t, tg), games_t[tg[1]].SEASON>> :
                     tg \in TeamGames(games_t)})

TeamPivot(games_t, keys) == [i \in DOMAIN keys |-> TeamPivotRow(games_t, keys[i])]

process_team_data(games_t, teams_t) ==
    MergeTeamNames(TeamPivot(games_t, TeamKeys(games_t)), teams_t, 1)

(***************************************************************************)
(* run_processing (data_loader.py)                                         *)
(***************************************************************************)
CLUTCH_MARGIN == 5

\* (x >= lo) & (x <= hi), both ends inclusive
Between(x, lo, hi) == FGe(x, lo) /\ FLe(x, hi)

\* mutant: a margin of exactly 5 is not clutch
IsClutchGame_Strict(pts_home, pts_away) ==
    /\ FLt(FAbs(FSub(pts_home, pts_away)), F(CLUTCH_MARGIN))
    /\ FGe(FAbs(FSub(pts_home, pts_away)), F(0))

\* SCORE_DIFF = (PTS_home - PTS_away).abs(); IS_CLUTCH_GAME = 0 <= SCORE_DIFF <= 5
IsClutchGame(pts_home, pts_away) ==
    Between(FAbs(FSub(pts_home, pts_away)), F(0), F(CLUTCH_MARGIN))

PreprocessGames(games_t) ==
    [j \in DOMAIN games_t |->
        [IS_CLUTCH_GAME |-> IsClutchGame(games_t[j].PTS_home, games_t[j].PTS_away)]
        @@ games_t[j]]

\* TEAM_NAME = CITY + ' ' + NICKNAME, added to teams_raw
PreprocessTeams(teams_t) ==
    [t \in DOMAIN teams_t |->
        [TEAM_NAME |-> teams_t[t].CITY \o " " \o teams_t[t].NICKNAME] @@ teams_t[t]]

\* teams_raw[['TEAM_ID', 'TEAM_NAME']]
TeamsClean(teams_t) ==
    [t \in DOMAIN teams_t |->
        [TEAM_ID |-> teams_t[t].TEAM_ID, TEAM_NAME |-> teams_t[t].TEAM_NAME]]

(***************************************************************************)
(* get_model_data (models.py)                                              *)
(*                                                                         *)
(* The player table is a sequence of records; the position of a record in  *)
(* the table handed in is its index label, which the sort keeps.           *)
(***************************************************************************)
base_features ==
    <<"GP_clutch", "PPG_clutch", "FG_PCT_clutch", "FG3_PCT_clutch",
      "AST_TO_RATIO_clutch", "PLUS_MINUS_PER_GAME_clutch",
      "PPG_diff", "FG_PCT_diff", "GP_non_clutch", "PPG_non_clutch",
      "RPG_clutch", "APG_clutch", "TOPG_clutch">>

enhanced_features ==
    base_features \o
    <<"CPI_2yr_avg", "PPG_clutch_2yr_avg", "FG_PCT_clutch_2yr_avg",
      "PPG_times_FG_PCT", "Games_consistency", "Clutch_volume",
      "experience", "PPG_stability">>

\* sort_values(by=['PLAYER_ID', 'SEASON']): record i comes before record j;
\* records with equal keys keep the order of the table
SortsBefore(df, i, j) ==
    \/ df[i].PLAYER_ID < df[j].PLAYER_ID
    \/ df[i].PLAYER_ID = df[j].PLAYER_ID /\ df[i].SEASON < df[j].SEASON
    \/ df[i].PLAYER_ID = df[j].PLAYER_ID /\ df[i].SEASON = df[j].SEASON /\ i < j

SortPosition(df, i) == Cardinality({j \in DOMAIN df : SortsBefore(df, j, i)}) + 1

SortPositions(df) == [i \in DOMAIN df |-> SortPosition(df, i)] \o <<>>

\* the record that goes to position k, with its index label
RecordAt(df, i) == [index |-> i] @@ df[i]

Sorted(df, positions) ==
    [k \in DOMAIN df |->
        RecordAt(df, CHOOSE i \in DOMAIN df : positions[i] = k)] \o <<>>

\* the sorted table; every record carries its index label
sort_values(df) == Sorted(df, SortPositions(df))

\* the positions of the rolling window of `window` records that ends at k,
\* inside the group of k's player (the table is read in its own order)
Window(d, k, window) ==
    {j \in 1..k : /\ d[j].PLAYER_ID = d[k].PLAYER_ID
                  /\ Cardinality({l \in j..k : d[l].PLAYER_ID = d[k].PLAYER_ID})
                         <= window}

\* rolling(2, min_periods=1).mean() of column col at position k
Rolling2Mean(d, k, col) == FMean([j \in Window(d, k, 2) |-> d[j][col]], Window(d, k, 2))

\* rolling(3, min_periods=2).std() is a number when the window holds at
\* least two observations
RollingStdDefined(d, k) ==
    Cardinality({j \in Window(d, k, 3) : ~IsNaN(d[j].PPG_clutch)}) >= 2

\* PPG_stability after fillna(median): only whether the cell is null is
\* kept; the median is null when no window has a standard deviation
StabilityCell(d, k) ==
    IF RollingStdDefined(d, k) \/ (\E j \in DOMAIN d : RollingStdDefined(d, j))
    THEN "number" ELSE "null"

\* groupby('PLAYER_ID')['SEASON'].rank() - 1, ties get their average rank
Experience(d, k) ==
    FSub(FAdd(F(Cardinality({j \in DOMAIN d : /\ d[j].PLAYER_ID = d[k].PLAYER_ID
                                               /\ d[j].SEASON < d[k].SEASON})),
              FDiv(F(Cardinality({j \in DOMAIN d : /\ d[j].PLAYER_ID = d[k].PLAYER_ID
                                                   /\ d[j].SEASON = d[k].SEASON}) + 1),
                   F(2))),
         F(1))

\* the positions after / before k that hold a record of k's player
LaterInGroup(d, k) == {j \in DOMAIN d : j > k /\ d[j].PLAYER_ID = d[k].PLAYER_ID}

EarlierInGroup(d, k) == {j \in DOMAIN d : j < k /\ d[j].PLAYER_ID = d[k].PLAYER_ID}

First(S) == CHOOSE j \in S : \A l \in S : j <= l

Last(S) == CHOOSE j \in S : \A l \in S : l <= j

\* mutant: the target is the CPI of the previous record of the player
NextInGroup_Previous(d, k, col) ==
    IF EarlierInGroup(d, k) = {} THEN NaN ELSE d[Last(EarlierInGroup(d, k))][col]

\* groupby('PLAYER_ID')[col].shift(-1) at position k
NextInGroup(d, k, col) ==
    IF LaterInGroup(d, k) = {} THEN NaN ELSE d[First(LaterInGroup(d, k))][col]

\* the engineered columns of the record at position k
EngineeredColumns(d, k) ==
    [CPI_2yr_avg |-> Rolling2Mean(d, k, "CPI"),
     PPG_clutch_2yr_avg |-> Rolling2Mean(d, k, "PPG_clutch"),
     FG_PCT_clutch_2yr_avg |-> Rolling2Mean(d, k, "FG_PCT_clutch"),
     PPG_times_FG_PCT |-> FMul(d[k].PPG_clutch, d[k].FG_PCT_clutch),
     Games_consistency |-> FDiv(F(d[k].GP_clutch),
                                F(d[k].GP_clutch + d[k].GP_non_clutch)),
     Clutch_volume |-> FMul(F(d[k].GP_clutch), d[k].PPG_clutch),
     experience |-> Experience(d, k),
     PPG_stability |-> StabilityCell(d, k)]

Engineer(d) == [k \in DOMAIN d |-> EngineeredColumns(d, k) @@ d[k]] \o <<>>

\* df['TARGET_CPI'] = the CPI of the player's next record
AddTarget(d) ==
    [k \in DOMAIN d |-> [TARGET_CPI |-> NextInGroup(d, k, "CPI")] @@ d[k]] \o <<>>

\* isna() of one cell
IsNull(row, col) ==
    IF col \in {"GP_clutch", "GP_non_clutch"} THEN FALSE
    ELSE IF col = "PPG_stability" THEN row[col] = "null"
    ELSE IsNaN(row[col])

\* df[mask]: the records at the positions in keep, in the order of the table
RECURSIVE SelectRange(_, _, _, _)
SelectRange(d, keep, lo, hi) ==
    IF lo > hi THEN <<>>
    ELSE IF lo = hi THEN (IF lo \in keep THEN <<d[lo]>> ELSE <<>>)
    ELSE SelectRange(d, keep, lo, (lo + hi) \div 2)
         \o SelectRange(d, keep, ((lo + hi) \div 2) + 1, hi)

SelectRows(d, keep) == SelectRange(d, keep, 1, Len(d))

\* df[df['GP_clutch'] >= 5]
FilterVolume(d) == SelectRows(d, {k \in DOMAIN d : d[k].GP_clutch >= 5})

\* dropna(subset=cols)
DropNa(d, cols) ==
    SelectRows(d, {k \in DOMAIN d : \A c \in DOMAIN cols : ~IsNull(d[k], cols[c])})

\* f[i] stands before f[j] in ascending order: nulls come last and equal
\* values stand in the order of the table
ValueBefore(f, i, j) ==
    IF f[i] = f[j] THEN i < j
    ELSE IF IsNaN(f[j]) THEN TRUE
    ELSE IF IsNaN(f[i]) THEN FALSE
    ELSE FLt(f[i], f[j])

ValueRanks(f, S) ==
    [i \in 1..Cardinality(S) |->
        Cardinality({j \in S : ValueBefore(f, j, i)}) + 1] \o <<>>

Ranked(f, ranks) ==
    [k \in DOMAIN ranks |-> f[CHOOSE i \in DOMAIN ranks : ranks[i] = k]] \o <<>>

\* the values of a column (S = 1..n) in ascending order
SortedValues(f, S) == Ranked(f, ValueRanks(f, S))

\* linear interpolation at the fractional position h = whole + frac of the
\* ascending values v (positions counted from 0)
Interpolate(v, whole, frac) ==
    IF whole + 1 >= Len(v) THEN v[Len(v)]
    ELSE FAdd(v[whole + 1], FMul(FSub(v[whole + 2], v[whole + 1]), frac))

\* Series.quantile(num/den) on ascending values: position q * (n - 1)
QuantileOfSorted(v, num, den) ==
    IF v = <<>> THEN NaN
    ELSE Interpolate(v, (num * (Len(v) - 1)) \div den,
                     RNorm((num * (Len(v) - 1)) % den, den))

Quantile(d, col, num, den) ==
    QuantileOfSorted(SortedValues([k \in DOMAIN d |-> d[k][col]], DOMAIN d), num, den)

LowerBound(Q1, Q3) == FSub(Q1, FMul(<<3, 2>>, FSub(Q3, Q1)))

UpperBound(Q1, Q3) == FAdd(Q3, FMul(<<3, 2>>, FSub(Q3, Q1)))

\* mutant: the ends of the interval are excluded
WithinBounds_Strict(t, lower_bound, upper_bound) ==
    FGt(t, lower_bound) /\ FLt(t, upper_bound)

WithinBounds(t, lower_bound, upper_bound) ==
    FGe(t, lower_bound) /\ FLe(t, upper_bound)

\* df_model[(TARGET_CPI >= lower_bound) & (TARGET_CPI <= upper_bound)]
FilterOutliers(d, lower_bound, upper_bound) ==
    SelectRows(d, {k \in DOMAIN d :
                      WithinBounds(d[k].TARGET_CPI, lower_bound, upper_bound)})

Project(row, cols) == [c \in {cols[k] : k \in DOMAIN cols} |-> row[c]]

\* the returned tuple, with the two bounds the filter was run with
ModelData(df_model, lower_bound, upper_bound) ==
    [X |-> [k \in DOMAIN df_model |-> Project(df_model[k], enhanced_features)] \o <<>>,
     y |-> [k \in DOMAIN df_model |-> df_model[k].TARGET_CPI] \o <<>>,
     features |-> enhanced_features,
     df_model |-> df_model,
     lower_bound |-> lower_bound,
     upper_bound |-> upper_bound]

RemoveOutliers(d, Q1, Q3) ==
    ModelData(FilterOutliers(d, LowerBound(Q1, Q3), UpperBound(Q1, Q3)),
              LowerBound(Q1, Q3), UpperBound(Q1, Q3))

\* the records with a target and all features, before the outlier filter
Candidates(df) ==
    DropNa(FilterVolume(AddTarget(Engineer(sort_values(df)))),
           <<"TARGET_CPI">> \o enhanced_features)

WithoutOutliers(d) ==
    RemoveOutliers(d, Quantile(d, "TARGET_CPI", 1, 4), Quantile(d, "TARGET_CPI", 3, 4))

get_model_data(df) == WithoutOutliers(Candidates(df))

(***************************************************************************)
(* train_model and get_predictions (models.py)                             *)
(*                                                                         *)
(* A fitted sub-model is a function of the feature vector; it is kept as   *)
(* the name of the feature it returns.  The split and the three fits are   *)
(* inputs of train_model here: the rows of the test set and the fitted     *)
(* sub-models.                                                             *)
(***************************************************************************)
MinTrainRows == 100

\* models.items(): the iteration order of the dict
model_names == <<"rf", "gbm", "ridge">>

\* the weights of the training loop
LoopWeights == [rf |-> <<1, 2>>, gbm |-> <<3, 10>>, ridge |-> <<1, 5>>]

\* mutant: the stored weights of gbm and ridge are exchanged
StoredWeights_Exchanged == [rf |-> <<1, 2>>, gbm |-> <<1, 5>>, ridge |-> <<3, 10>>]

\* the weights stored in ensemble_model
StoredWeights == [rf |-> <<1, 2>>, gbm |-> <<3, 10>>, ridge |-> <<1, 5>>]

\* model.predict on one row
Predict(fitted, row) ==
    IF fitted = "PPG_clutch" THEN row.PPG_clutch ELSE F(row.GP_clutch)

\* predictions after the first k sub-models: start at zeros, then
\* predictions += pred * weights[name] for each name in turn
RECURSIVE Blend(_, _, _, _)
Blend(models, wts, rows, k) ==
    IF k = 0 THEN [i \in DOMAIN rows |-> F(0)]
    ELSE [i \in DOMAIN rows |->
             FAdd(Blend(models, wts, rows, k - 1)[i],
                  FMul(Predict(models[model_names[k]], rows[i]),
                       wts[model_names[k]]))]

EnsemblePredictions(models, wts, rows) ==
    Blend(models, wts, rows, Len(model_names)) \o <<>>

Squared(x) == FMul(x, x)

\* the sum of the values v[lo..hi]
RECURSIVE SumRange(_, _, _)
SumRange(v, lo, hi) ==
    IF lo > hi THEN F(0)
    ELSE IF lo = hi THEN v[lo]
    ELSE FAdd(SumRange(v, lo, (lo + hi) \div 2),
              SumRange(v, ((lo + hi) \div 2) + 1, hi))

\* np.sum / np.mean of a vector
VectorSum(v) == SumRange(v, 1, Len(v))

VectorMean(v) == FDiv(VectorSum(v), F(Len(v)))

SumSquaredError(y_true, y_pred) ==
    VectorSum([i \in DOMAIN y_true |-> Squared(FSub(y_true[i], y_pred[i]))] \o <<>>)

TotalSumOfSquares(y_true, mean) ==
    VectorSum([i \in DOMAIN y_true |-> Squared(FSub(y_true[i], mean))] \o <<>>)

\* 1 - SS_res / SS_tot; a constant y_true scores 1 when matched, else 0
R2(ss_res, ss_tot) ==
    IF FNe(ss_tot, F(0)) THEN FSub(F(1), FDiv(ss_res, ss_tot))
    ELSE IF FEq(ss_res, F(0)) THEN F(1) ELSE F(0)

r2_score(y_true, y_pred) ==
    R2(SumSquaredError(y_true, y_pred),
       TotalSumOfSquares(y_true, VectorMean(y_true)))

mean_absolute_error(y_true, y_pred) ==
    VectorMean([i \in DOMAIN y_true |-> FAbs(FSub(y_true[i], y_pred[i]))] \o <<>>)

\* np.mean((y_test - predictions_test) ** 2): rmse is its square root
MeanSquaredError(y_true, y_pred) ==
    FDiv(SumSquaredError(y_true, y_pred), F(Len(y_true)))

None == "None"

\* the return value on fewer than 100 rows
NoModel ==
    [ensemble_model |-> None, scaler |-> None, test_r2 |-> None, mae |-> None,
     train_r2 |-> None, rmse |-> None]

\* the metrics of the blended predictions and the stored ensemble; rmse is
\* kept as its square; the two blended vectors are kept next to them
Trained(models, y_train, y_test, predictions_train, predictions_test) ==
    [ensemble_model |-> [models |-> models, selector |-> "SelectKBest",
                         weights |-> StoredWeights],
     scaler |-> "RobustScaler",
     test_r2 |-> r2_score(y_test, predictions_test),
     mae |-> mean_absolute_error(y_test, predictions_test),
     train_r2 |-> r2_score(y_train, predictions_train),
     rmse |-> [squared |-> MeanSquaredError(y_test, predictions_test)],
     predictions_train |-> predictions_train,
     predictions_test |-> predictions_test]

FitAndBlend(models, X_train, X_test, y_train, y_test) ==
    Trained(models, y_train, y_test,
            EnsemblePredictions(models, LoopWeights, X_train),
            EnsemblePredictions(models, LoopWeights, X_test))

\* the right end of bin k - 1 (the left end of bin k) of five bins of equal
\* width over [lowest, highest]
BinEdge(lowest, highest, k) ==
    FAdd(lowest, FMul(RNorm(k, 5), FSub(highest, lowest)))

\* pd.cut(y, bins=5, labels=False) for one value: bins are closed on the
\* right and the first holds the lowest value; equal values all fall into
\* the middle bin
CutBin(v, lowest, highest) ==
    IF FEq(lowest, highest) THEN 2
    ELSE CHOOSE k \in 0..4 :
             /\ FLe(v, BinEdge(lowest, highest, k + 1))
             /\ k = 0 \/ FGt(v, BinEdge(lowest, highest, k))

Bins(y, lowest, highest) ==
    [i \in DOMAIN y |-> CutBin(y[i], lowest, highest)] \o <<>>

cut(y) == Bins(y, FMin(y, DOMAIN y), FMax(y, DOMAIN y))

\* test_size = 0.25: the test set holds ceil(0.25 * n) rows
TestSize(n) == (n + 3) \div 4

\* the number of rows of test_rows in bin k
InBin(bins, test_rows, k) == Cardinality({i \in test_rows : bins[i] = k})

\* stratify=bins: every bin gives its share of the test rows, rounded down
\* or up
Stratified(bins, test_rows) ==
    \A k \in 0..4 :
        /\ InBin(bins, test_rows, k) * Len(bins)
               >= InBin(bins, DOMAIN bins, k) * TestSize(Len(bins)) - (Len(bins) - 1)
        /\ InBin(bins, test_rows, k) * Len(bins)
               <= InBin(bins, DOMAIN bins, k) * TestSize(Len(bins)) + (Len(bins) - 1)

\* the place of row i among the rows of its bin
RankInBin(bins, i) == Cardinality({j \in 1..i : bins[j] = bins[i]})

\* every fourth row of the table from the fourth or from the first on, or
\* every fourth row of each bin
EveryFourth(bins) ==
    {{i \in DOMAIN bins : i % 4 = r} : r \in 0..1}
    \cup {{i \in DOMAIN bins : RankInBin(bins, i) % 4 = 0}}

\* the test sets the seeded shuffle may pick: a quarter of the rows,
\* stratified by bin
TestSplits(bins) ==
    {test_rows \in EveryFourth(bins) :
        /\ Cardinality(test_rows) = TestSize(Len(bins))
        /\ Stratified(bins, test_rows)}

\* the stratified split refuses a class with a single member
SingleMemberClass(bins) ==
    \E k \in 0..4 : Cardinality({i \in DOMAIN bins : bins[i] = k}) = 1

\* train_test_split raises ValueError and train_model does not catch it
SplitRaises == [raised |-> "ValueError"]

\* mutant: the guard also rejects exactly 100 rows
train_model_Inclusive(X, y, test_rows, models) ==
    IF X = <<>> \/ y = <<>> \/ Len(X) <= MinTrainRows THEN NoModel
    ELSE IF SingleMemberClass(cut(y)) THEN SplitRaises
    ELSE FitAndBlend(models,
                     SelectRows(X, DOMAIN X \ test_rows),
                     SelectRows(X, test_rows),
                     SelectRows(y, DOMAIN y \ test_rows),
                     SelectRows(y, test_rows))

train_model(X, y, test_rows, models) ==
    IF X = <<>> \/ y = <<>> \/ Len(X) < MinTrainRows THEN NoModel
    ELSE IF SingleMemberClass(cut(y)) THEN SplitRaises
    ELSE FitAndBlend(models,
                     SelectRows(X, DOMAIN X \ test_rows),
                     SelectRows(X, test_rows),
                     SelectRows(y, DOMAIN y \ test_rows),
                     SelectRows(y, test_rows))

\* df[df['SEASON'] == selected_season]
FilterSeason(d, season) ==
    SelectRows(d, {k \in DOMAIN d : d[k].SEASON = season})

\* mutant: the features are engineered from the records of the season alone
CurrentSeasonEnhanced_SeasonOnly(df, season, features) ==
    DropNa(Engineer(FilterSeason(sort_values(df), season)), features)

\* the enhanced records of the selected season with every feature present
CurrentSeasonEnhanced(df, season, features) ==
    DropNa(FilterSeason(Engineer(sort_values(df)), season), features)

\* results_df before the final sort
PredictedRows(rows, ensemble_predictions) ==
    [k \in DOMAIN rows |->
        [PLAYER_NAME |-> rows[k].PLAYER_NAME, TEAM_NAME |-> rows[k].TEAM_NAME,
         Predicted |-> ensemble_predictions[k]]] \o <<>>

PredictRows(rows, ensemble_model) ==
    PredictedRows(rows, EnsemblePredictions(ensemble_model.models,
                                            ensemble_model.weights, rows))

\* an empty table when no record of the season is complete
get_predictions(df, season, ensemble_model, features) ==
    PredictRows(CurrentSeasonEnhanced(df, season, features), ensemble_model)

\* mutant: the rows are put in ascending order
SortedDescending_Ascending(rows, order) ==
    /\ \A k \in DOMAIN rows : \E j \in DOMAIN order : order[j] = k
    /\ \A j \in DOMAIN order :
          j > 1 => FLe(rows[order[j - 1]].Predicted, rows[order[j]].Predicted)

\* sort_values(ascending=False): an order of the rows with the predictions
\* descending
SortedDescending(rows, order) ==
    /\ \A k \in DOMAIN rows : \E j \in DOMAIN order : order[j] = k
    /\ \A j \in DOMAIN order :
          j > 1 => FGe(rows[order[j - 1]].Predicted, rows[order[j]].Predicted)

(***************************************************************************)
(* Specification Spec: run_processing on bounded raw files                 *)
(***************************************************************************)
MaxDetailRows == 2

MaxRuns == 2

File(rows) == [exists |-> TRUE, rows |-> rows]

NoFile == [exists |-> FALSE, rows |-> <<>>]

GameRow(id, home, visitor, pts, season) ==
    [GAME_ID |-> id, SEASON |-> season,
     HOME_TEAM_ID |-> home, VISITOR_TEAM_ID |-> visitor,
     PTS_home |-> F(pts[1]), PTS_away |-> F(pts[2]),
     HOME_TEAM_WINS |-> IF pts[1] > pts[2] THEN 1 ELSE 0]

\* two games between teams 1 and 2, each decided by 5 or by 6 points: the
\* first is won by the home side, the second by the visitor; the second is in
\* the same or in the next season
GameTables ==
    {<<GameRow(1, 1, 2, p1, 2019), GameRow(2, 2, 1, p2, s2)>> :
        p1 \in {<<100, 95>>, <<100, 94>>},
        p2 \in {<<95, 100>>, <<94, 100>>},
        s2 \in {2019, 2020}}

TeamTable ==
    <<[TEAM_ID |-> 1, CITY |-> "Boston", NICKNAME |-> "Celtics"],
      [TEAM_ID |-> 2, CITY |-> "Chicago", NICKNAME |-> "Bulls"]>>

PlayerNames == <<"A. Able", "B. Baker">>

\* player 1 changes team between the two games, player 2 stays with team 2
TeamOfPlayer(p, g) == IF p = 1 THEN g ELSE 2

StatLine(values) ==
    [c \in StatCols |-> IF c \in DOMAIN values THEN F(values[c]) ELSE F(0)]

\* box-score lines: did not play (no stats), 30 seconds, exactly one minute
\* without a field-goal attempt or a turnover, and a full line
BoxLines ==
    << [MIN |-> StrCell(<<"D", "N", "P">>)] @@ [c \in StatCols |-> NaN],
       [MIN |-> StrCell(<<"0", ":", "3", "0">>)]
           @@ StatLine([FGM |-> 1, FGA |-> 1, PTS |-> 2, PLUS_MINUS |-> 1]),
       [MIN |-> StrCell(<<"1", ":", "0", "0">>)]
           @@ StatLine([FTM |-> 1, FTA |-> 2, PTS |-> 1, AST |-> 1]),
       [MIN |-> StrCell(<<"1", "2", ":", "3", "0">>)]
           @@ StatLine([FGM |-> 2, FGA |-> 5, FG3M |-> 1, FG3A |-> 2, FTM |-> 1,
                        FTA |-> 2, OREB |-> 1, DREB |-> 2, REB |-> 3, AST |-> 4,
                        STL |-> 1, BLK |-> 1, TO |-> 2, PF |-> 3, PTS |-> 6,
                        PLUS_MINUS |-> -3]) >>

DetailRow(g, p, l) ==
    [GAME_ID |-> g, PLAYER_ID |-> p, PLAYER_NAME |-> PlayerNames[p],
     TEAM_ID |-> TeamOfPlayer(p, g)] @@ BoxLines[l]

\* the row options in a fixed order: game, then player, then line
DetailOptions ==
    [o \in 0..(4 * Len(BoxLines) - 1) |->
        DetailRow((o \div (2 * Len(BoxLines))) + 1,
                  ((o \div Len(BoxLines)) % 2) + 1,
                  (o % Len(BoxLines)) + 1)]

\* box-score files of up to MaxDetailRows rows, rows listed in option order
DetailTables ==
    UNION {{[i \in 1..n |-> DetailOptions[idx[i]]] :
               idx \in {f \in [1..n -> DOMAIN DetailOptions] :
                           \A i \in 1..n : i > 1 => f[i - 1] <= f[i]}} :
           n \in 0..MaxDetailRows}

IdleCPI == cpi_pc = "idle" /\ cpi_df = <<>>

IdleMin ==
    /\ min_pc = "idle" /\ min_cell = <<>> /\ min_shape = <<>> /\ min_out = <<>>

IdleTeam ==
    /\ team_pc = "idle" /\ team_games = <<>> /\ team_teams = <<>> /\ team_out = <<>>

IdleCache ==
    /\ disk = <<>> /\ cache_load = <<>> /\ cache_model_data = {} /\ cache_train = {}
    /\ last_call = <<>> /\ steps = 0

IdleModel == model_pc = "idle" /\ model_data = <<>>

IdleTrain ==
    /\ train_pc = "idle" /\ train_X = <<>> /\ train_y = <<>> /\ train_split = {}
    /\ trained = <<>> /\ selected_season = 0 /\ results_df = <<>>

IdleBuild ==
    /\ pc = "idle" /\ run = 0
    /\ file_games = NoFile /\ file_details = NoFile /\ file_teams = NoFile
    /\ games_raw = <<>> /\ details_raw = <<>> /\ teams_raw = <<>>
    /\ player_performance = <<>> /\ team_performance = <<>>
    /\ player_file = NoFile /\ team_file = NoFile
    /\ first_player = <<>> /\ first_team = <<>>

Init ==
    /\ pc = "start" /\ run = 1
    /\ file_games \in {NoFile} \cup {File(t) : t \in GameTables}
    /\ file_details \in {NoFile} \cup {File(t) : t \in DetailTables}
    /\ file_teams \in {NoFile, File(TeamTable)}
    /\ games_raw = <<>> /\ details_raw = <<>> /\ teams_raw = <<>>
    /\ player_performance = <<>> /\ team_performance = <<>>
    /\ player_file = NoFile /\ team_file = NoFile
    /\ first_player = <<>> /\ first_team = <<>>
    /\ IdleCPI /\ IdleModel /\ player_df = <<>> /\ IdleTrain /\ IdleMin /\ IdleCache /\ IdleTeam

\* the three read_csv calls succeed
LoadRaw ==
    /\ pc = "start"
    /\ file_games.exists /\ file_details.exists /\ file_teams.exists
    /\ games_raw' = file_games.rows
    /\ details_raw' = file_details.rows
    /\ teams_raw' = file_teams.rows
    /\ pc' = "loaded"
    /\ UNCHANGED <<run, varsFiles, player_performance, team_performance,
                   player_file, team_file, first_player, first_team, varsCPI, varsModel, varsTrain, varsMin, varsCache, varsTeam>>

\* mutant: the except clause prints the message and does not return
LoadRawMissing_Continues ==
    /\ pc = "start"
    /\ ~(file_games.exists /\ file_details.exists /\ file_teams.exists)
    /\ pc' = "loaded"
    /\ UNCHANGED <<run, varsFiles, games_raw, details_raw, teams_raw,
                   player_performance, team_performance,
                   player_file, team_file, first_player, first_team, varsCPI, varsModel, varsTrain, varsMin, varsCache, varsTeam>>

\* FileNotFoundError: the message is printed and run_processing returns
LoadRawMissing ==
    /\ pc = "start"
    /\ ~(file_games.exists /\ file_details.exists /\ file_teams.exists)
    /\ pc' = "aborted"
    /\ UNCHANGED <<run, varsFiles, games_raw, details_raw, teams_raw,
                   player_performance, team_performance,
                   player_file, team_file, first_player, first_team, varsCPI, varsModel, varsTrain, varsMin, varsCache, varsTeam>>

\* pre-processing of games and teams, then both processors
RunProcessors ==
    /\ pc = "loaded"
    /\ \E g \in {PreprocessGames(games_raw)}, t \in {PreprocessTeams(teams_raw)} :
       \E r \in {process_player_data(g, details_raw, TeamsClean(t))},
          team \in {process_team_data(g, TeamsClean(t))} :
           /\ ~r.raised
           /\ games_raw' = g /\ teams_raw' = t /\ details_raw' = r.details
           /\ player_performance' = r.table
           /\ team_performance' = team
           /\ first_player' = IF run = 1 THEN r.table ELSE first_player
           /\ first_team' = IF run = 1 THEN team ELSE first_team
    /\ pc' = "processed"
    /\ UNCHANGED <<run, varsFiles, player_file, team_file, varsCPI, varsModel, varsTrain, varsMin, varsCache, varsTeam>>

\* process_player_data leaves by KeyError: the run dies before any save
RunProcessorsRaises ==
    /\ pc = "loaded"
    /\ \E g \in {PreprocessGames(games_raw)}, t \in {PreprocessTeams(teams_raw)} :
       \E r \in {process_player_data(g, details_raw, TeamsClean(t))} :
           /\ r.raised
           /\ games_raw' = g /\ teams_raw' = t /\ details_raw' = r.details
    /\ pc' = "crashed"
    /\ UNCHANGED <<run, varsFiles, player_performance, team_performance,
                   player_file, team_file, first_player, first_team, varsCPI, varsModel, varsTrain, varsMin, varsCache, varsTeam>>

SavePlayer ==
    /\ pc = "processed"
    /\ player_file' = File(player_performance)
    /\ pc' = "player_saved"
    /\ UNCHANGED <<run, varsFiles, games_raw, details_raw, teams_raw,
                   player_performance, team_performance, team_file,
                   first_player, first_team, varsCPI, varsModel, varsTrain, varsMin, varsCache, varsTeam>>

\* IOError while writing the player table: caught, message printed
SavePlayerFails ==
    /\ pc = "processed"
    /\ pc' = "io_failed"
    /\ UNCHANGED <<run, varsFiles, games_raw, details_raw, teams_raw,
                   player_performance, team_performance, player_file, team_file,
                   first_player, first_team, varsCPI, varsModel, varsTrain, varsMin, varsCache, varsTeam>>

SaveTeam ==
    /\ pc = "player_saved"
    /\ team_file' = File(team_performance)
    /\ pc' = "done"
    /\ UNCHANGED <<run, varsFiles, games_raw, details_raw, teams_raw,
                   player_performance, team_performance, player_file,
                   first_player, first_team, varsCPI, varsModel, varsTrain, varsMin, varsCache, varsTeam>>

\* IOError while writing the team table: caught, message printed
SaveTeamFails ==
    /\ pc = "player_saved"
    /\ pc' = "io_failed"
    /\ UNCHANGED <<run, varsFiles, games_raw, details_raw, teams_raw,
                   player_performance, team_performance, player_file, team_file,
                   first_player, first_team, varsCPI, varsModel, varsTrain, varsMin, varsCache, varsTeam>>

\* run_processing is started again on the same raw files
RunAgain ==
    /\ pc = "done" /\ run < MaxRuns
    /\ run' = run + 1
    /\ pc' = "start"
    /\ games_raw' = <<>> /\ details_raw' = <<>> /\ teams_raw' = <<>>
    /\ player_performance' = <<>> /\ team_performance' = <<>>
    /\ UNCHANGED <<varsFiles, player_file, team_file, first_player, first_team,
                   varsCPI, varsModel, varsTrain, varsMin, varsCache, varsTeam>>

\* the two processors are applied again to the tables already in memory
\* (process_player_data has converted details_raw in place)
Rebuild ==
    /\ pc = "done" /\ run < MaxRuns
    /\ \E r \in {process_player_data(games_raw, details_raw, TeamsClean(teams_raw))} :
           /\ ~r.raised
           /\ details_raw' = r.details
           /\ player_performance' = r.table
    /\ team_performance' = process_team_data(games_raw, TeamsClean(teams_raw))
    /\ run' = run + 1
    /\ pc' = "processed"
    /\ UNCHANGED <<varsFiles, games_raw, teams_raw, player_file, team_file,
                   first_player, first_team, varsCPI, varsModel, varsTrain, varsMin, varsCache, varsTeam>>

Next ==
    \/ LoadRaw
    \/ LoadRawMissing
    \/ RunProcessors
    \/ RunProcessorsRaises
    \/ SavePlayer
    \/ SavePlayerFails
    \/ SaveTeam
    \/ SaveTeamFails
    \/ RunAgain
    \/ Rebuild

Spec == Init /\ [][Next]_vars

ClutchRates ==
    {"PPG_clutch", "APG_clutch", "RPG_clutch", "TOPG_clutch",
     "PLUS_MINUS_PER_GAME_clutch", "FG_PCT_clutch", "FG3_PCT_clutch",
     "FT_PCT_clutch", "AST_TO_RATIO_clutch"}

\* C1 (as claimed): in every record returned by process_player_data,
\* GP_clutch = 0 implies that all nine clutch rates are 0.
C1_ZeroGamesZeroRates ==
    \A i \in DOMAIN player_performance :
        player_performance[i].GP_clutch = 0 =>
            \A c \in ClutchRates : player_performance[i][c] = F(0)

\* the games table carries the clutch flag
GamesClassified ==
    /\ games_raw # <<>>
    /\ \A j \in DOMAIN games_raw : "IS_CLUTCH_GAME" \in DOMAIN games_raw[j]

\* final margin of game j in whole points
Margin(j) == Abs(games_raw[j].PTS_home[1] - games_raw[j].PTS_away[1])

\* C6: for every game, IS_CLUTCH_GAME is true exactly when the absolute final
\* margin is between 0 and 5 inclusive, whichever side won.
C6_ClutchIffMarginAtMostFive ==
    GamesClassified =>
        \A j \in DOMAIN games_raw :
            games_raw[j].IS_CLUTCH_GAME <=> (Margin(j) >= 0 /\ Margin(j) <= 5)

\* C6 witness: a classified table holds a clutch game decided by exactly 5
\* points and a non-clutch game decided by exactly 6, one of the two won by
\* the home side and the other by the visitor.
C6_Witness ==
    /\ GamesClassified
    /\ \E j, k \in DOMAIN games_raw :
          /\ Margin(j) = 5 /\ games_raw[j].IS_CLUTCH_GAME
          /\ Margin(k) = 6 /\ ~games_raw[k].IS_CLUTCH_GAME
          /\ games_raw[j].HOME_TEAM_WINS # games_raw[k].HOME_TEAM_WINS

MaxCpiRows == 3

CpiGP == {1, 4, 5}

CpiZeroVector ==
    [PPG_clutch |-> F(0), FG_PCT_clutch |-> F(0), APG_clutch |-> F(0),
     TOPG_clutch |-> F(0), PLUS_MINUS_PER_GAME_clutch |-> F(0)]

CpiMetricVectors ==
    { [PPG_clutch |-> F(2), FG_PCT_clutch |-> <<1, 2>>, APG_clutch |-> F(1),
       TOPG_clutch |-> F(1), PLUS_MINUS_PER_GAME_clutch |-> F(-1)],
      [PPG_clutch |-> F(2), FG_PCT_clutch |-> <<1, 2>>, APG_clutch |-> F(1),
       TOPG_clutch |-> F(3), PLUS_MINUS_PER_GAME_clutch |-> F(-1)],
      [PPG_clutch |-> F(5), FG_PCT_clutch |-> <<1, 2>>, APG_clutch |-> F(0),
       TOPG_clutch |-> F(1), PLUS_MINUS_PER_GAME_clutch |-> F(3)],
      [PPG_clutch |-> NaN, FG_PCT_clutch |-> PosInf, APG_clutch |-> F(1),
       TOPG_clutch |-> F(0), PLUS_MINUS_PER_GAME_clutch |-> NegInf] }

\* a record without clutch games carries zero rates; a record with clutch
\* games carries the zero vector or any of the other vectors
CpiRows ==
    {[GP_clutch |-> g] @@ m : g \in CpiGP \cup {0}, m \in {CpiZeroVector}}
    \cup {[GP_clutch |-> g] @@ m : g \in CpiGP, m \in CpiMetricVectors}

CpiTables == UNION {[1..n -> CpiRows] : n \in 0..MaxCpiRows}

InitCPI ==
    /\ cpi_pc = "input" /\ cpi_df \in CpiTables
    /\ IdleBuild /\ IdleModel /\ player_df = <<>> /\ IdleTrain /\ IdleMin /\ IdleCache /\ IdleTeam

CalculateCpi ==
    /\ cpi_pc = "input"
    /\ cpi_df' = calculate_cpi(cpi_df)
    /\ cpi_pc' = "scored"
    /\ UNCHANGED <<varsBuild, varsModel, varsTrain, varsMin, varsCache, varsTeam>>

NextCPI == CalculateCpi

SpecCPI == InitCPI /\ [][NextCPI]_vars

\* every metric of every row of the scored table is a finite number
CpiAllFinite ==
    \A i \in DOMAIN cpi_df : \A k \in DOMAIN MetricsToScale :
        IsFinite(cpi_df[i][MetricsToScale[k]])

CpiScored == cpi_pc = "scored"

CpiHighRows == {i \in DOMAIN cpi_df : cpi_df[i].GP_clutch >= 5}

CpiLowRows == {i \in DOMAIN cpi_df : cpi_df[i].GP_clutch \in 1..4}

CpiZeroRows == {i \in DOMAIN cpi_df : cpi_df[i].GP_clutch = 0}

\* C2 (as claimed): after calculate_cpi every record with GP_clutch = 0 has
\* CPI exactly 0, whatever the population of the other two tiers.
C2_ZeroTierCpiIsZero ==
    (CpiScored /\ CpiAllFinite) => \A i \in CpiZeroRows : cpi_df[i].CPI = CpiNum(F(0))

\* C3: after calculate_cpi, when every metric in the table is finite, every
\* record with GP_clutch > 0 has a non-null CPI and every record with
\* 0 < GP_clutch < 5 has CPI >= -2.0.
C3_CpiDefinedAndFloored ==
    (CpiScored /\ CpiAllFinite) =>
        \A i \in DOMAIN cpi_df :
            /\ cpi_df[i].GP_clutch > 0 => ~CpiIsNull(cpi_df[i].CPI)
            /\ cpi_df[i].GP_clutch \in 1..4 =>
                   /\ cpi_df[i].CPI.zs = <<>>
                   /\ FGe(cpi_df[i].CPI.rat, F(-2))

\* C3 witness: a finite table with a lone high-volume record (zero variance
\* in its tier) next to low-volume records has been scored.
C3_Witness ==
    /\ CpiScored /\ CpiAllFinite
    /\ Cardinality(CpiHighRows) = 1
    /\ Cardinality(CpiLowRows) = 2
    /\ \A i \in CpiHighRows \cup CpiLowRows : ~CpiIsNull(cpi_df[i].CPI)

\* C4: every record is scored by exactly one path chosen by GP_clutch:
\* GP_clutch >= 5 carries a z-score sum (one term per metric), 0 < GP_clutch
\* < 5 carries a plain min-max value, GP_clutch = 0 carries neither (it keeps
\* the initial NaN, or the constant 0 when both tiers are empty).
C4_TierPartition ==
    CpiScored =>
        \A i \in DOMAIN cpi_df :
            LET c == cpi_df[i].CPI
                g == cpi_df[i].GP_clutch
            IN  /\ g >= 5 => Len(c.zs) = Len(MetricsToScale) /\ c.rat = F(0)
                /\ (g > 0 /\ g < 5) =>
                       c.zs = <<>> /\ (CpiAllFinite => ~IsNaN(c.rat))
                /\ g = 0 =>
                       /\ c.zs = <<>>
                       /\ \/ IsNaN(c.rat)
                          \/ c.rat = F(0) /\ CpiHighRows = {} /\ CpiLowRows = {}

\* C4 witness: a scored table holding a record with exactly 5 clutch games,
\* one with exactly 4 and one with none.
C4_Witness ==
    /\ CpiScored /\ CpiAllFinite
    /\ \E i, j, k \in DOMAIN cpi_df :
          /\ cpi_df[i].GP_clutch = 5 /\ Len(cpi_df[i].CPI.zs) = 5
          /\ cpi_df[j].GP_clutch = 4 /\ cpi_df[j].CPI.zs = <<>>
          /\ ~IsNaN(cpi_df[j].CPI.rat)
          /\ cpi_df[k].GP_clutch = 0 /\ IsNaN(cpi_df[k].CPI.rat)

\* the low-volume records all hold the same finite value in column col
CpiDegenerate(col) ==
    /\ CpiLowRows # {}
    /\ \A i \in CpiLowRows : IsFinite(cpi_df[i][col])
    /\ \A i, j \in CpiLowRows : cpi_df[i][col] = cpi_df[j][col]

\* C5: when every low-volume record has the same value for a metric, that
\* metric's normalized value is exactly 1/2 for every low-volume record (no
\* division by zero); when all five metrics are degenerate the record's CPI
\* is therefore (0.85 * 0.5 - 0.15 * 0.5) * GP_clutch / 5.
C5_DegenerateIsHalf ==
    CpiScored =>
        /\ \A k \in DOMAIN MetricsToScale :
              CpiDegenerate(MetricsToScale[k]) =>
                  \A i \in CpiLowRows :
                      NormalizedMetric(cpi_df, MetricsToScale[k])[i] = <<1, 2>>
        /\ (\A k \in DOMAIN MetricsToScale : CpiDegenerate(MetricsToScale[k])) =>
              \A i \in CpiLowRows :
                  cpi_df[i].CPI = CpiNum(RNorm(7 * cpi_df[i].GP_clutch, 100))

\* C5 witness: a single low-volume record (max = min in every column) has
\* been scored next to records of the other tiers.
C5_Witness ==
    /\ CpiScored
    /\ Cardinality(CpiLowRows) = 1
    /\ CpiHighRows # {}
    /\ \A k \in DOMAIN MetricsToScale : CpiDegenerate(MetricsToScale[k])
    /\ \E i \in CpiLowRows : cpi_df[i].CPI = CpiNum(RNorm(7 * cpi_df[i].GP_clutch, 100))

(***************************************************************************)
(* Specification SpecModel: get_model_data applied to bounded tables       *)
(***************************************************************************)
MaxModelRows == 3

\* the seasons on record: player 1 has three, player 2 has one
ModelKeys == {<<1, 2019>>, <<1, 2020>>, <<1, 2021>>, <<2, 2020>>}

\* CPI of a record: 1, 2, 3 over player 1's seasons, 7 for player 2
RecordedCpi(p, s) == IF p = 1 THEN F(s - 2018) ELSE F(7)

\* a record with 5 clutch games, a CPI and every feature present
FullRecord(p, s, cpi) ==
    [PLAYER_ID |-> p, PLAYER_NAME |-> PlayerNames[p],
     TEAM_NAME |-> "Boston Celtics", SEASON |-> s, CPI |-> cpi,
     GP_clutch |-> 5, PPG_clutch |-> F(p), FG_PCT_clutch |-> <<1, 2>>,
     FG3_PCT_clutch |-> <<1, 4>>, AST_TO_RATIO_clutch |-> F(2),
     PLUS_MINUS_PER_GAME_clutch |-> F(-1), PPG_diff |-> F(1),
     FG_PCT_diff |-> F(0), GP_non_clutch |-> 10, PPG_non_clutch |-> F(1),
     RPG_clutch |-> F(3), APG_clutch |-> F(2), TOPG_clutch |-> F(1)]

\* the record as it is, with 4 clutch games, without a CPI, without PPG
ModelVariants == {"full", "low_volume", "no_cpi", "no_ppg"}

ModelRecord(p, s, v) ==
    IF v = "low_volume" THEN [FullRecord(p, s, RecordedCpi(p, s)) EXCEPT !.GP_clutch = 4]
    ELSE IF v = "no_cpi" THEN FullRecord(p, s, NaN)
    ELSE IF v = "no_ppg" THEN [FullRecord(p, s, RecordedCpi(p, s)) EXCEPT !.PPG_clutch = NaN]
    ELSE FullRecord(p, s, RecordedCpi(p, s))

ModelRecords == {ModelRecord(k[1], k[2], v) : k \in ModelKeys, v \in ModelVariants}

\* one player over seven seasons with CPI 0, 1, 2, 3, 4, 5 and a last value
Career(last) ==
    [k \in 1..7 |-> FullRecord(1, 2014 + k, IF k = 7 THEN last ELSE F(k - 1))]

CareerEnds == {F(100), F(9), <<17, 2>>}

\* tables of up to MaxModelRows records in any order, and the careers
ModelTables ==
    UNION {[1..n -> ModelRecords] : n \in 0..MaxModelRows}
    \cup {Career(last) : last \in CareerEnds}

InitModel ==
    /\ model_pc = "input" /\ player_df \in ModelTables /\ model_data = <<>>
    /\ IdleCPI /\ IdleBuild /\ IdleTrain /\ IdleMin /\ IdleCache /\ IdleTeam

GetModelData ==
    /\ model_pc = "input"
    /\ model_data' = get_model_data(player_df)
    /\ model_pc' = "done"
    /\ UNCHANGED <<player_df, varsCPI, varsBuild, varsTrain, varsMin, varsCache, varsTeam>>

NextModel == GetModelData

SpecModel == InitModel /\ [][NextModel]_vars

ModelDone == model_pc = "done"

\* record i is followed by record j in the season order of their player
\* (records of one season in the order of the table)
ComesBefore(i, j) ==
    /\ player_df[i].PLAYER_ID = player_df[j].PLAYER_ID
    /\ \/ player_df[i].SEASON < player_df[j].SEASON
       \/ player_df[i].SEASON = player_df[j].SEASON /\ i < j

NextRecord(i, j) ==
    /\ ComesBefore(i, j)
    /\ ~\E k \in DOMAIN player_df : ComesBefore(i, k) /\ ComesBefore(k, j)

TrainingLabels == {model_data.df_model[k].index : k \in DOMAIN model_data.df_model}

\* the table is the three seasons of player 1 with CPI 1, 2, 3, in any order
ThreeSeasons ==
    /\ Len(player_df) = 3
    /\ \A s \in 2019..2021 :
          \E i \in DOMAIN player_df : player_df[i] = ModelRecord(1, s, "full")

\* C7: every training row's target is the CPI of the next record of the same
\* player in season order; a player's last record is not a training row; y
\* lists the targets of the training rows.  CPI 1, 2, 3 over three seasons
\* gives the targets 2, 3 on the first two seasons.
C7_TargetIsNextSeasonCpi ==
    ModelDone =>
        /\ \A k \in DOMAIN model_data.df_model :
              \E j \in DOMAIN player_df :
                  /\ NextRecord(model_data.df_model[k].index, j)
                  /\ model_data.df_model[k].TARGET_CPI = player_df[j].CPI
        /\ \A i \in DOMAIN player_df :
              (~\E j \in DOMAIN player_df : ComesBefore(i, j)) => i \notin TrainingLabels
        /\ Len(model_data.X) = Len(model_data.y)
        /\ \A k \in DOMAIN model_data.y :
              model_data.y[k] = model_data.df_model[k].TARGET_CPI
        /\ ThreeSeasons =>
              /\ model_data.y = <<F(2), F(3)>>
              /\ \A k \in DOMAIN model_data.df_model :
                    model_data.df_model[k].SEASON = 2018 + k

\* C7 witness: the three seasons were handed in as 2021, 2019, 2020 and the
\* training rows are 2019 with target 2 and 2020 with target 3.
C7_Witness ==
    /\ ModelDone
    /\ ThreeSeasons
    /\ player_df[1].SEASON = 2021 /\ player_df[2].SEASON = 2019
    /\ model_data.y = <<F(2), F(3)>>
    /\ model_data.df_model[1].index = 2 /\ model_data.df_model[2].index = 3

CandidateTargets ==
    [k \in DOMAIN Candidates(player_df) |-> Candidates(player_df)[k].TARGET_CPI]

\* C8: the rows kept by the outlier filter are exactly the candidates whose
\* target t has Q1 - 1.5*IQR <= t <= Q3 + 1.5*IQR, both ends included, Q1
\* and Q3 being the interpolated quartiles of the candidate targets.  The
\* targets 1, 2, 3, 4, 5, 100 keep 1..5 inside [-1.5, 8.5]; a last target of
\* 8.5 lies on the upper end and is kept.
C8_OutlierFilterInclusive ==
    ModelDone =>
        /\ \A k \in DOMAIN model_data.y :
              /\ FLe(model_data.lower_bound, model_data.y[k])
              /\ FLe(model_data.y[k], model_data.upper_bound)
        /\ \A k \in DOMAIN CandidateTargets :
              (/\ FLe(model_data.lower_bound, CandidateTargets[k])
               /\ FLe(CandidateTargets[k], model_data.upper_bound))
              => Candidates(player_df)[k].index \in TrainingLabels
        /\ TrainingLabels \subseteq
              {Candidates(player_df)[k].index : k \in DOMAIN CandidateTargets}
        /\ player_df = Career(F(100)) =>
              /\ model_data.lower_bound = <<-3, 2>>
              /\ model_data.upper_bound = <<17, 2>>
              /\ model_data.y = <<F(1), F(2), F(3), F(4), F(5)>>
        /\ player_df = Career(<<17, 2>>) =>
              /\ model_data.upper_bound = <<17, 2>>
              /\ model_data.y = <<F(1), F(2), F(3), F(4), F(5), <<17, 2>>>>
        /\ player_df = Career(F(9)) =>
              model_data.y = <<F(1), F(2), F(3), F(4), F(5)>>

\* C8 witness: the candidate targets were 1, 2, 3, 4, 5, 100 and the filter
\* dropped the row with target 100.
C8_Witness ==
    /\ ModelDone
    /\ CandidateTargets = <<F(1), F(2), F(3), F(4), F(5), F(100)>>
    /\ model_data.y = <<F(1), F(2), F(3), F(4), F(5)>>
    /\ model_data.lower_bound = <<-3, 2>> /\ model_data.upper_bound = <<17, 2>>

(***************************************************************************)
(* Specification SpecTrain: train_model on bounded training tables, then   *)
(* get_predictions on bounded player tables                                *)
(***************************************************************************)
MaxPredictionRows == 3

TrainSizes == {0, 99, 100, 104}

\* a training table of n rows: the two feature columns the fitted
\* sub-models read, and the target
TrainingX(n) == [i \in 1..n |-> [GP_clutch |-> 5 + (i % 3), PPG_clutch |-> F(i % 4)]]

TrainingY(n) == [i \in 1..n |-> F(i % 5)]

\* the same targets with the last one alone at the top, on the upper end
\* Q3 + 1.5 * IQR = 6 of what the outlier filter keeps
OneHighY(n) == [i \in 1..n |-> IF i = n THEN F(6) ELSE F(i % 5)]

TrainingTargets(n) == {TrainingY(n), OneHighY(n)}


\* what the three fits may return
FittedModels == [{"rf", "gbm", "ridge"} -> {"PPG_clutch", "GP_clutch"}]

PredictionRecords ==
    {ModelRecord(1, 2019, "full"), ModelRecord(1, 2020, "full"),
     ModelRecord(2, 2020, "full"), ModelRecord(1, 2020, "no_ppg")}

PredictionTables == UNION {[1..n -> PredictionRecords] : n \in 0..MaxPredictionRows}

PredictionSeasons == {2020, 2021}

InitTrain ==
    /\ train_pc = "input"
    /\ \E n \in TrainSizes : train_X = TrainingX(n) /\ train_y \in TrainingTargets(n)
    /\ player_df = <<>>
    /\ train_split = {} /\ trained = <<>> /\ selected_season = 0 /\ results_df = <<>>
    /\ IdleModel /\ IdleCPI /\ IdleBuild /\ IdleMin /\ IdleCache /\ IdleTeam

\* the page trains the ensemble; if model is None it stops, and an
\* exception of train_model ends the page run
TrainModel ==
    /\ train_pc = "input"
    /\ \E test_rows \in TestSplits(cut(train_y)), models \in FittedModels :
       \E result \in {train_model(train_X, train_y, test_rows, models)} :
          /\ train_split' = test_rows
          /\ trained' = result
          /\ train_pc' = IF result = NoModel THEN "no_model"
                         ELSE IF result = SplitRaises THEN "raised" ELSE "trained"
    /\ UNCHANGED <<train_X, train_y, selected_season, results_df, player_df,
                   model_pc, model_data, varsCPI, varsBuild, varsMin, varsCache, varsTeam>>

\* the page predicts the season after the selected one from a player table
GetPredictions ==
    /\ train_pc = "trained"
    /\ \E df \in PredictionTables, season \in PredictionSeasons :
       \E rows \in {get_predictions(df, season, trained.ensemble_model,
                                    enhanced_features)} :
       \E order \in [DOMAIN rows -> DOMAIN rows] :
          /\ SortedDescending(rows, order)
          /\ player_df' = df
          /\ selected_season' = season
          /\ results_df' = [j \in DOMAIN rows |-> rows[order[j]]]
    /\ train_pc' = "predicted"
    /\ UNCHANGED <<train_X, train_y, train_split, trained,
                   model_pc, model_data, varsCPI, varsBuild, varsMin, varsCache, varsTeam>>

NextTrain == TrainModel \/ GetPredictions

SpecTrain == InitTrain /\ [][NextTrain]_vars

HasModel == train_pc \in {"trained", "predicted"}

\* 0.5 * rf + 0.3 * gbm + 0.2 * ridge on one row
HalfThreeTwo(models, row) ==
    RNorm(5 * Predict(models.rf, row)[1] * Predict(models.gbm, row)[2]
                * Predict(models.ridge, row)[2]
          + 3 * Predict(models.gbm, row)[1] * Predict(models.rf, row)[2]
                * Predict(models.ridge, row)[2]
          + 2 * Predict(models.ridge, row)[1] * Predict(models.rf, row)[2]
                * Predict(models.gbm, row)[2],
          10 * Predict(models.rf, row)[2] * Predict(models.gbm, row)[2]
             * Predict(models.ridge, row)[2])

\* every prediction is the 0.5 / 0.3 / 0.2 blend of its row
BlendOf(predictions, rows, models) ==
    /\ Len(predictions) = Len(rows)
    /\ \A k \in DOMAIN rows : predictions[k] = HalfThreeTwo(models, rows[k])

\* the mean absolute error of the 0.5 / 0.3 / 0.2 blend
MaeOfBlend(mae, rows, targets, models) ==
    FMul(mae, F(Len(rows))) =
        FSum([k \in DOMAIN rows |->
                 FAbs(FSub(targets[k], HalfThreeTwo(models, rows[k])))],
             DOMAIN rows)

TestX == SelectRows(train_X, train_split)

TestY == SelectRows(train_y, train_split)

TrainX == SelectRows(train_X, DOMAIN train_X \ train_split)

\* C10: the stored weights are rf 0.5, gbm 0.3, ridge 0.2 and sum to 1; the
\* blended training and test predictions behind the reported metrics, and
\* the predictions of get_predictions made with the stored weights, are
\* 0.5*rf + 0.3*gbm + 0.2*ridge on every row; the reported mean absolute
\* error is the one of that blend.
C10_BlendWeightsFixed ==
    HasModel =>
        /\ trained.ensemble_model.weights.rf = <<1, 2>>
        /\ trained.ensemble_model.weights.gbm = <<3, 10>>
        /\ trained.ensemble_model.weights.ridge = <<1, 5>>
        /\ DOMAIN trained.ensemble_model.weights = {"rf", "gbm", "ridge"}
        /\ FAdd(FAdd(trained.ensemble_model.weights.rf,
                     trained.ensemble_model.weights.gbm),
                trained.ensemble_model.weights.ridge) = F(1)
        /\ BlendOf(trained.predictions_test, TestX, trained.ensemble_model.models)
        /\ BlendOf(trained.predictions_train, TrainX, trained.ensemble_model.models)
        /\ MaeOfBlend(trained.mae, TestX, TestY, trained.ensemble_model.models)
        /\ train_pc = "predicted" =>
              \A j \in DOMAIN results_df :
                  \E i \in DOMAIN player_df :
                      /\ player_df[i].PLAYER_NAME = results_df[j].PLAYER_NAME
                      /\ player_df[i].SEASON = selected_season
                      /\ ~IsNaN(player_df[i].PPG_clutch)
                      /\ results_df[j].Predicted
                             = HalfThreeTwo(trained.ensemble_model.models, player_df[i])

\* C10 witness: an ensemble whose three sub-models do not all agree was
\* trained on 104 rows and has predicted two players with different values
\* from a table of three records.
C10_Witness ==
    /\ train_pc = "predicted"
    /\ Len(train_X) = 104
    /\ trained.ensemble_model.models.gbm # trained.ensemble_model.models.ridge
    /\ Len(results_df) = 2
    /\ results_df[1].Predicted # results_df[2].Predicted

\* C11: train_model returns the six-None result whenever it is given fewer
\* than 100 rows (0 and 99 included), and the page then stops; with 100 rows
\* or more it does not take that path: it goes on to the split, and what it
\* returns then is a trained ensemble, not the six-None result.
C11_FewRowsNoModel ==
    train_pc # "input" =>
        /\ Len(train_X) < 100 => trained = NoModel /\ train_pc = "no_model"
        /\ Len(train_X) >= 100 =>
              /\ trained # NoModel
              /\ train_pc \in {"trained", "predicted", "raised"}
              /\ train_pc # "raised" =>
                    DOMAIN trained.ensemble_model = {"models", "selector", "weights"}

\* C11 witness: train_model was called with exactly 99 rows and returned the
\* six-None result.
C11_Witness ==
    /\ train_pc = "no_model"
    /\ Len(train_X) = 99
    /\ trained = NoModel

(***************************************************************************)
(* Specification SpecMin: convert_min_to_decimal on bounded MIN cells      *)
(***************************************************************************)
MaxMinParts == 4

\* the pieces a MIN text is written from: the text of the piece and the
\* number it denotes (ValueError for a piece that is not a number)
MinPieces ==
    { [text |-> <<"1">>, value |-> F(1)],
      [text |-> <<"3", "0">>, value |-> F(30)],
      [text |-> <<"1", ".", "5">>, value |-> <<3, 2>>],
      [text |-> <<"x">>, value |-> ValueError],
      [text |-> <<>>, value |-> ValueError] }

\* the pieces written one after the other with ':' between them
RECURSIVE JoinPieces(_)
JoinPieces(pieces) ==
    IF Len(pieces) = 1 THEN pieces[1].text
    ELSE pieces[1].text \o <<":">> \o JoinPieces(Tail(pieces))

MinShapes == UNION {[1..n -> MinPieces] : n \in 1..MaxMinParts}

\* cells without pieces: the sentinels, a missing value, a float
OtherMinCells ==
    {StrCell(<<"D", "N", "P">>), StrCell(<<"N", "/", "A">>), StrCell(<<>>),
     NumCell(NaN), NumCell(<<25, 2>>)}

InitMin ==
    /\ min_pc = "input"
    /\ \/ \E shape \in MinShapes :
             min_shape = shape /\ min_cell = StrCell(JoinPieces(shape))
       \/ min_shape = <<>> /\ min_cell \in OtherMinCells
    /\ min_out = <<>>
    /\ IdleCPI /\ IdleBuild /\ IdleModel /\ player_df = <<>> /\ IdleTrain /\ IdleCache /\ IdleTeam

ConvertMin ==
    /\ min_pc = "input"
    /\ min_out' = convert_min_to_decimal(min_cell)
    /\ min_pc' = "done"
    /\ UNCHANGED <<min_cell, min_shape, varsCPI, varsBuild, varsModel, varsTrain, varsCache, varsTeam>>

NextMin == ConvertMin

SpecMin == InitMin /\ [][NextMin]_vars

AllNumbers(shape) == \A k \in DOMAIN shape : shape[k].value # ValueError

\* the value the three recognised shapes denote
ShapeMinutes(shape) ==
    IF Len(shape) = 1 THEN shape[1].value
    ELSE IF Len(shape) = 2
    THEN FAdd(shape[1].value, FDiv(shape[2].value, F(60)))
    ELSE FAdd(FAdd(FMul(shape[1].value, F(60)), shape[2].value),
              FDiv(shape[3].value, F(60)))

Recognised(shape) == Len(shape) \in {1, 2, 3} /\ AllNumbers(shape)

\* C12 (as claimed): 'MM:SS' gives MM + SS/60, 'HH:MM:SS' gives
\* HH*60 + MM + SS/60, a bare number gives that number, and every other
\* input (a sentinel, a missing value, a text that is none of the three
\* shapes, whatever its number of ':'-separated parts) gives 0.0.
C12_OtherShapesGiveZero ==
    min_pc = "done" =>
        IF min_cell.kind = "num"
        THEN min_out = (IF IsNaN(min_cell.v) THEN F(0) ELSE min_cell.v)
        ELSE IF Recognised(min_shape) THEN min_out = ShapeMinutes(min_shape)
        ELSE min_out = F(0)

\* C13 (as claimed): the table returned by process_player_data has at most
\* one row per (PLAYER_ID, SEASON), also for a player with box-score rows
\* for two teams within one season.
C13_OneRowPerPlayerSeason ==
    \A i, j \in DOMAIN player_performance :
        (/\ player_performance[i].PLAYER_ID = player_performance[j].PLAYER_ID
         /\ player_performance[i].SEASON = player_performance[j].SEASON)
            => i = j

RawInputMissing ==
    ~(file_games.exists /\ file_details.exists /\ file_teams.exists)

\* C14: when one of the three raw inputs is missing, run_processing never
\* gets past the load: it is at its start or has returned from the except
\* clause, no table has been loaded or produced, and neither processed
\* file has been written.
C14_NoWriteAfterFailedLoad ==
    RawInputMissing =>
        /\ pc \in {"start", "aborted"}
        /\ games_raw = <<>> /\ details_raw = <<>> /\ teams_raw = <<>>
        /\ player_performance = <<>> /\ team_performance = <<>>
        /\ player_file = NoFile /\ team_file = NoFile

\* C14 witness: the run has returned from the except clause with only the
\* box-score file missing, and nothing was written.
C14_Witness ==
    /\ pc = "aborted"
    /\ file_games.exists /\ ~file_details.exists /\ file_teams.exists
    /\ player_file = NoFile /\ team_file = NoFile

NonClutchRates ==
    {"PPG_non_clutch", "APG_non_clutch", "RPG_non_clutch", "TOPG_non_clutch",
     "PLUS_MINUS_PER_GAME_non_clutch", "FG_PCT_non_clutch",
     "FG3_PCT_non_clutch", "FT_PCT_non_clutch", "AST_TO_RATIO_non_clutch"}

\* C15: in every record returned by process_player_data, each of the nine
\* rates of each regime is a finite number (never infinite, never NaN),
\* whichever of games played, attempts and turnovers are zero.
C15_RatesFinite ==
    \A i \in DOMAIN player_performance :
        \A c \in ClutchRates \cup NonClutchRates :
            IsFinite(player_performance[i][c])

\* C15 witness: a returned record has no clutch game at all, and in its
\* non-clutch regime no field-goal attempt, no three-point attempt and no
\* turnover, but free-throw attempts and an assist.
C15_Witness ==
    \E i \in DOMAIN player_performance :
        /\ player_performance[i].GP_clutch = 0
        /\ player_performance[i].PTS_clutch = F(0)
        /\ player_performance[i].FGA_non_clutch = F(0)
        /\ player_performance[i].FG3A_non_clutch = F(0)
        /\ player_performance[i].TOV_non_clutch = F(0)
        /\ player_performance[i].AST_non_clutch = F(1)
        /\ player_performance[i].FT_PCT_non_clutch = <<1, 2>>
        /\ player_performance[i].AST_TO_RATIO_non_clutch = F(1)

\* the rows of the engineered table that belong to the selected season and
\* have every feature present
CompleteRows(enhanced) ==
    {k \in DOMAIN enhanced :
        /\ enhanced[k].SEASON = selected_season
        /\ \A c \in DOMAIN enhanced_features :
              ~IsNull(enhanced[k], enhanced_features[c])}

\* results_df has one row for each row of complete, carrying its names, and
\* its predictions never increase from one row to the next
OneRowEachDescending(enhanced, complete) ==
    /\ Len(results_df) = Cardinality(complete)
    /\ \E b \in [DOMAIN results_df -> complete] :
          /\ \A j, k \in DOMAIN results_df : b[j] = b[k] => j = k
          /\ \A j \in DOMAIN results_df :
                /\ results_df[j].PLAYER_NAME = enhanced[b[j]].PLAYER_NAME
                /\ results_df[j].TEAM_NAME = enhanced[b[j]].TEAM_NAME
                /\ results_df[j].Predicted
                       = HalfThreeTwo(trained.ensemble_model.models, enhanced[b[j]])
    /\ \A j \in DOMAIN results_df :
          j > 1 => FGe(results_df[j - 1].Predicted, results_df[j].Predicted)
    /\ complete = {} => results_df = <<>>

PredictionsMatch(enhanced) == OneRowEachDescending(enhanced, CompleteRows(enhanced))

\* C16: get_predictions returns exactly one row per row of the requested
\* season that has all features present, the rows in non-increasing order of
\* the predicted value; when the season is absent from the table or none of
\* its rows has all features, the result is the empty table.
C16_OneRowPerCompleteRowDescending ==
    train_pc = "predicted" => PredictionsMatch(Engineer(sort_values(player_df)))

\* C16 witness: from a table of three records in which the lower prediction
\* comes first, get_predictions has returned the two records of the selected
\* season with the higher prediction first.
C16_Witness ==
    /\ train_pc = "predicted"
    /\ Len(player_df) = 3
    /\ Len(results_df) = 2
    /\ FGt(results_df[1].Predicted, results_df[2].Predicted)
    /\ \E i, j \in DOMAIN player_df :
          /\ i < j
          /\ player_df[i].SEASON = selected_season
          /\ player_df[j].SEASON = selected_season
          /\ player_df[i].PLAYER_NAME = results_df[2].PLAYER_NAME
          /\ player_df[j].PLAYER_NAME = results_df[1].PLAYER_NAME
          /\ player_df[i].PLAYER_NAME # player_df[j].PLAYER_NAME

(***************************************************************************)
(* Specification SpecCache: the three cached operations called in any      *)
(* order in one process, while the processed files are rewritten           *)
(*                                                                         *)
(* st.cache_data and st.cache_resource key an entry by the function and    *)
(* the hash of its arguments; nothing else invalidates it.  An entry       *)
(* keeps, next to the value, the inputs the value was computed from.       *)
(***************************************************************************)
MaxCacheSteps == 3

\* utils.load_data on the two processed files
load_data(player_csv, team_csv) ==
    IF ~player_csv.exists \/ ~team_csv.exists
    THEN [player_df |-> None, team_df |-> None]
    ELSE [player_df |-> SelectRows(player_csv.rows,
                                   {k \in DOMAIN player_csv.rows :
                                       player_csv.rows[k].GP_clutch > 0}),
          team_df |-> team_csv.rows]

\* a record without a clutch game
IdleRecord == [FullRecord(2, 2020, F(0)) EXCEPT !.GP_clutch = 0]

CacheTables ==
    { <<ModelRecord(1, 2019, "full"), ModelRecord(1, 2020, "full")>>,
      <<IdleRecord, ModelRecord(1, 2019, "full")>>,
      <<ModelRecord(1, 2019, "full"), ModelRecord(1, 2020, "full"),
        ModelRecord(1, 2021, "full")>> }

TeamCsv == File(<<[TEAM_NAME |-> "Boston Celtics", SEASON |-> 2019]>>)

\* what data/processed may hold: nothing, or a player and a team table
DiskStates ==
    {[player |-> NoFile, team |-> NoFile]}
    \cup {[player |-> File(t), team |-> TeamCsv] : t \in CacheTables}

CacheTrainSizes == {99, 100}

\* random_state=42: the split and the fits are functions of the arguments
SeededSplit(n) == {i \in 1..n : i % 4 = 0}

SeededModels == [rf |-> "PPG_clutch", gbm |-> "GP_clutch", ridge |-> "PPG_clutch"]

NoCall == [op |-> "none", inputs |-> <<>>, value |-> <<>>, computed_from |-> <<>>]

Returned(op, inputs, entry) ==
    [op |-> op, inputs |-> inputs, value |-> entry.value,
     computed_from |-> entry.computed_from]

Entry(key, value) == [key |-> key, value |-> value, computed_from |-> key]

InitCache ==
    /\ disk \in DiskStates
    /\ cache_load = <<>> /\ cache_model_data = {} /\ cache_train = {}
    /\ last_call = NoCall /\ steps = 0
    /\ IdleCPI /\ IdleBuild /\ IdleModel /\ player_df = <<>> /\ IdleTrain /\ IdleMin /\ IdleTeam

\* run_processing (or anything else) rewrites the processed files
WriteProcessed ==
    /\ steps < MaxCacheSteps
    /\ \E d \in DiskStates : d # disk /\ disk' = d
    /\ steps' = steps + 1
    /\ UNCHANGED <<cache_load, cache_model_data, cache_train, last_call,
                   varsCPI, varsBuild, varsModel, varsTrain, varsMin, varsTeam>>

\* load_data(): no argument, so one entry for the life of the process
CallLoadData ==
    /\ steps < MaxCacheSteps
    /\ \E entry \in (IF cache_load = <<>>
                     THEN {Entry(disk, load_data(disk.player, disk.team))}
                     ELSE {cache_load[1]}) :
          /\ cache_load' = <<entry>>
          /\ last_call' = Returned("load_data", disk, entry)
    /\ steps' = steps + 1
    /\ UNCHANGED <<disk, cache_model_data, cache_train,
                   varsCPI, varsBuild, varsModel, varsTrain, varsMin, varsTeam>>

\* get_model_data(player_df): one entry per distinct table
CallGetModelData ==
    /\ steps < MaxCacheSteps
    /\ \E df \in CacheTables :
       \E entry \in {IF \E e \in cache_model_data : e.key = df
                     THEN CHOOSE e \in cache_model_data : e.key = df
                     ELSE Entry(df, get_model_data(df))} :
          /\ cache_model_data' = cache_model_data \cup {entry}
          /\ last_call' = Returned("get_model_data", df, entry)
    /\ steps' = steps + 1
    /\ UNCHANGED <<disk, cache_load, cache_train,
                   varsCPI, varsBuild, varsModel, varsTrain, varsMin, varsTeam>>

\* train_model(X, y): one entry per distinct pair of arguments
CallTrainModel ==
    /\ steps < MaxCacheSteps
    /\ \E n \in CacheTrainSizes :
       \E args \in {[X |-> TrainingX(n), y |-> TrainingY(n)]} :
       \E entry \in {IF \E e \in cache_train : e.key = args
                     THEN CHOOSE e \in cache_train : e.key = args
                     ELSE Entry(args, train_model(args.X, args.y, SeededSplit(n),
                                                  SeededModels))} :
          /\ cache_train' = cache_train \cup {entry}
          /\ last_call' = Returned("train_model", args, entry)
    /\ steps' = steps + 1
    /\ UNCHANGED <<disk, cache_load, cache_model_data,
                   varsCPI, varsBuild, varsModel, varsTrain, varsMin, varsTeam>>

NextCache == WriteProcessed \/ CallLoadData \/ CallGetModelData \/ CallTrainModel

SpecCache == InitCache /\ [][NextCache]_vars

\* C17 (as claimed): whatever calls and file changes came before, a cached
\* call returns a result that was computed from its current inputs (the
\* arguments of get_model_data and train_model, the processed files of
\* load_data); for load_data this is the table read from the files as they
\* are now.
C17_NeverStale ==
    last_call.op # "none" =>
        /\ last_call.computed_from = last_call.inputs
        /\ last_call.op = "load_data" =>
              last_call.value = load_data(last_call.inputs.player,
                                          last_call.inputs.team)

\* the minutes of a box-score row, whether or not the column has been
\* converted already
ParsedMinutes(cell) ==
    IF cell.kind = "num" THEN cell.v ELSE convert_min_to_decimal(cell)

\* the box-score rows with minutes > 0 of the record's player, team and
\* season in the games with the given clutch flag
CountedRows(rec, flag) ==
    {i \in DOMAIN details_raw :
        /\ details_raw[i].PLAYER_ID = rec.PLAYER_ID
        /\ FGt(ParsedMinutes(details_raw[i].MIN), F(0))
        /\ \E t \in DOMAIN teams_raw :
              /\ teams_raw[t].TEAM_ID = details_raw[i].TEAM_ID
              /\ teams_raw[t].TEAM_NAME = rec.TEAM_NAME
        /\ \E g \in DOMAIN games_raw :
              /\ games_raw[g].GAME_ID = details_raw[i].GAME_ID
              /\ games_raw[g].SEASON = rec.SEASON
              /\ games_raw[g].IS_CLUTCH_GAME = flag}

\* C18 (as claimed): for each returned record and regime, the stored
\* games-played value is the number of counted box-score rows of that
\* player, team and season in that regime; it is 0 exactly when the regime
\* has no counted row, that is when its raw summed minutes are 0.
C18_GamesPlayedCountsRows ==
    \A i \in DOMAIN player_performance :
        /\ player_performance[i].GP_clutch
               = Cardinality(CountedRows(player_performance[i], TRUE))
        /\ player_performance[i].GP_non_clutch
               = Cardinality(CountedRows(player_performance[i], FALSE))

\* the sum of a box-score column over a set of rows
SumOverRows(rows, col) ==
    FSum([i \in rows |-> IF col = "MIN" THEN ParsedMinutes(details_raw[i].MIN)
                         ELSE IF IsNaN(details_raw[i][col]) THEN F(0)
                         ELSE details_raw[i][col]],
         rows)

\* the stored totals of one regime are the sums over the given rows
TotalsAreSums(rec, suffix, rows) ==
    /\ \A c \in StatCols :
          rec[Renamed(c) \o "_" \o suffix] = SumOverRows(rows, c)
    /\ rec["MIN_" \o suffix] = SumOverRows(rows, "MIN")

\* C19 (as claimed): for each returned record and regime, every stored
\* total (each counting stat and MIN) is the sum of that field over the
\* box-score rows with minutes > 0 of that player, team, season and regime;
\* the 1 put in place of a zero for the division is not stored, so a regime
\* without rows stores MIN = 0.
C19_TotalsAreSumsOfCountedRows ==
    \A i \in DOMAIN player_performance :
        /\ TotalsAreSums(player_performance[i], "clutch",
                         CountedRows(player_performance[i], TRUE))
        /\ TotalsAreSums(player_performance[i], "non_clutch",
                         CountedRows(player_performance[i], FALSE))

\* records i and j have the same number of clutch games (so they are
\* scored in the same tier) and the same four metrics other than turnovers
EqualButTurnovers(i, j) ==
    /\ cpi_df[i].GP_clutch = cpi_df[j].GP_clutch
    /\ cpi_df[i].GP_clutch > 0
    /\ \A k \in DOMAIN MetricsToScale :
          MetricsToScale[k] # "TOPG_clutch" =>
              cpi_df[i][MetricsToScale[k]] = cpi_df[j][MetricsToScale[k]]

\* CPI a >= CPI b for two records of one tier: plain values are compared as
\* numbers; z-score sums that agree in every term but the turnover term
\* (the 4th, over the same radicand) are compared by that term
CpiAtLeast(a, b) ==
    IF a.zs = <<>> \/ b.zs = <<>>
    THEN a.zs = b.zs /\ FGe(a.rat, b.rat)
    ELSE /\ a.rat = b.rat
         /\ \A k \in DOMAIN a.zs : k # 4 => a.zs[k] = b.zs[k]
         /\ a.zs[4][2] = b.zs[4][2]
         /\ FGe(a.zs[4][1], b.zs[4][1])

\* C20 (as claimed): turnovers are penalized in both tiers: of two records
\* with equal GP_clutch > 0 and equal PPG_clutch, FG_PCT_clutch, APG_clutch
\* and PLUS_MINUS_PER_GAME_clutch, the one with the lower TOPG_clutch has a
\* CPI greater than or equal to the other's.
C20_TurnoversPenalized ==
    (CpiScored /\ CpiAllFinite) =>
        \A i, j \in DOMAIN cpi_df :
            (EqualButTurnovers(i, j)
             /\ FLt(cpi_df[i].TOPG_clutch, cpi_df[j].TOPG_clutch))
                => CpiAtLeast(cpi_df[i].CPI, cpi_df[j].CPI)

\* the stored totals of a regime in which the record's player has no
\* counted row are all 0
AbsentRegimeIsZero(rec, suffix, rows) ==
    rows = {} =>
        /\ \A c \in StatCols : rec[Renamed(c) \o "_" \o suffix] = F(0)
        /\ rec["GP_" \o suffix] = 0

\* C21 (as claimed): process_player_data completes for any input, also when
\* every counted game is clutch or every counted game is non-clutch, and
\* every returned record carries the totals of both regimes, 0 for a regime
\* in which the player never appeared.
C21_BothRegimesAlways ==
    /\ pc # "crashed"
    /\ \A i \in DOMAIN player_performance :
          /\ AbsentRegimeIsZero(player_performance[i], "clutch",
                                CountedRows(player_performance[i], TRUE))
          /\ AbsentRegimeIsZero(player_performance[i], "non_clutch",
                                CountedRows(player_performance[i], FALSE))

(***************************************************************************)
(* Specification SpecTeam: process_team_data on bounded games tables       *)
(***************************************************************************)
MaxTeamGames == 2

\* home and visitor of a game; team 3 is in the teams table or not
TeamPairings == {<<1, 2>>, <<2, 1>>, <<1, 3>>}

\* a game decided by 5 or by 6 points, won by the home side or the visitor
TeamScores == {<<100, 95>>, <<95, 100>>, <<100, 94>>, <<94, 100>>}

TeamSeasons == {2019, 2020}

TeamGameTables ==
    UNION {{[g \in 1..n |-> GameRow(g, pairing[g][1], pairing[g][2],
                                    score[g], season[g])] :
               pairing \in [1..n -> TeamPairings],
               score \in [1..n -> TeamScores],
               season \in [1..n -> TeamSeasons]} :
           n \in 1..MaxTeamGames}

TeamTables ==
    {TeamTable,
     TeamTable \o <<[TEAM_ID |-> 3, CITY |-> "Chicago", NICKNAME |-> "Bulls"]>>}

InitTeam ==
    /\ team_pc = "input"
    /\ team_games \in TeamGameTables
    /\ team_teams \in TeamTables
    /\ team_out = <<>>
    /\ IdleCPI /\ IdleBuild /\ IdleModel /\ player_df = <<>> /\ IdleTrain
    /\ IdleMin /\ IdleCache

\* the games are classified and the teams named as run_processing does,
\* then process_team_data is applied
ProcessTeams ==
    /\ team_pc = "input"
    /\ \E g \in {PreprocessGames(team_games)} :
          /\ team_games' = g
          /\ team_out' = process_team_data(g, TeamsClean(PreprocessTeams(team_teams)))
    /\ team_pc' = "done"
    /\ UNCHANGED <<team_teams, varsCPI, varsBuild, varsModel, varsTrain, varsMin,
                   varsCache>>

NextTeam == ProcessTeams

SpecTeam == InitTeam /\ [][NextTeam]_vars

\* the games of a season and regime
GamesOf(season, flag) ==
    {g \in DOMAIN team_games :
        team_games[g].SEASON = season /\ team_games[g].IS_CLUTCH_GAME = flag}

\* the games of a team in a season and regime, at home or away
GamesOfTeam(team, season, flag) ==
    {g \in GamesOf(season, flag) :
        team \in {team_games[g].HOME_TEAM_ID, team_games[g].VISITOR_TEAM_ID}}

GamesWonBy(team, season, flag) ==
    {g \in GamesOfTeam(team, season, flag) :
        (team_games[g].HOME_TEAM_ID = team)
            <=> FGt(team_games[g].PTS_home, team_games[g].PTS_away)}

\* the three columns of one regime of a record are those of its games
RegimeOfRecord(rec, suffix, played, won) ==
    /\ {"GP_" \o suffix, "WINS_" \o suffix, "WIN_PCT_" \o suffix} \subseteq DOMAIN rec
    /\ rec["GP_" \o suffix] = Cardinality(played)
    /\ rec["WINS_" \o suffix] = Cardinality(won)
    /\ 0 <= rec["WINS_" \o suffix] /\ rec["WINS_" \o suffix] <= rec["GP_" \o suffix]
    /\ rec["WIN_PCT_" \o suffix]
           = (IF played = {} THEN F(0)
              ELSE RNorm(Cardinality(won), Cardinality(played)))

AllTeamsNamed ==
    \A g \in DOMAIN team_games :
        \A id \in {team_games[g].HOME_TEAM_ID, team_games[g].VISITOR_TEAM_ID} :
            \E t \in DOMAIN team_teams : team_teams[t].TEAM_ID = id

\* over the records of a season, GP adds up to twice the games of the regime
\* and WINS to the games of the regime
SeasonTotals(season, suffix, games, rows) ==
    /\ IntSum([i \in rows |-> team_out[i]["GP_" \o suffix]], rows)
           = 2 * Cardinality(games)
    /\ IntSum([i \in rows |-> team_out[i]["WINS_" \o suffix]], rows)
           = Cardinality(games)

SeasonRows(season) == {i \in DOMAIN team_out : team_out[i].SEASON = season}

\* C22 (as claimed): every record of process_team_data holds, for each
\* regime, GP = the team's games of the season in the regime, WINS = those it
\* won, 0 <= WINS <= GP, and WIN_PCT = WINS / GP (0 when the team has no game
\* in the regime); when every participating team is in the teams table, per
\* season and regime GP adds up to twice the number of games and WINS to the
\* number of games.
C22_TeamRecordsCountGames ==
    team_pc = "done" =>
        /\ \A i \in DOMAIN team_out :
              /\ RegimeOfRecord(team_out[i], "clutch",
                     GamesOfTeam(team_out[i].TEAM_ID, team_out[i].SEASON, TRUE),
                     GamesWonBy(team_out[i].TEAM_ID, team_out[i].SEASON, TRUE))
              /\ RegimeOfRecord(team_out[i], "non_clutch",
                     GamesOfTeam(team_out[i].TEAM_ID, team_out[i].SEASON, FALSE),
                     GamesWonBy(team_out[i].TEAM_ID, team_out[i].SEASON, FALSE))
        /\ AllTeamsNamed =>
              \A season \in TeamSeasons :
                  /\ SeasonTotals(season, "clutch", GamesOf(season, TRUE),
                                  SeasonRows(season))
                  /\ SeasonTotals(season, "non_clutch", GamesOf(season, FALSE),
                                  SeasonRows(season))

\* C30 (as claimed): called with 100 rows or more, train_model returns a
\* trained ensemble and does not raise, whatever the distribution of the
\* targets over the five bins, a bin holding a single row included.
C30_TrainingNeverRaises ==
    (train_pc \notin {"idle", "input"} /\ Len(train_X) >= MinTrainRows) =>
        /\ train_pc # "raised"
        /\ trained # SplitRaises
        /\ DOMAIN trained.ensemble_model = {"models", "selector", "weights"}

(***************************************************************************)
(* Specification SpecPage: the predictive-model page calls get_model_data  *)
(* on the player table and train_model on what it returns                  *)
(***************************************************************************)
MaxPagePlayers == 16

PageSeasons == 8

\* season k of player p; a player has the same CPI, one of 0..9, in every
\* season
PageRecord(p, k) ==
    [FullRecord(1, 2010 + k, F((3 * p) % 10)) EXCEPT !.PLAYER_ID = p]

\* the careers of players 1..n, in the order of the file
Careers(n) ==
    [i \in 1..(PageSeasons * n) |->
        PageRecord(((i - 1) \div PageSeasons) + 1, ((i - 1) % PageSeasons) + 1)]

\* the same table with another CPI in the fifth season of player 1, which
\* is the target of the fourth row
PageTable(n, cpi) == [Careers(n) EXCEPT ![5].CPI = cpi]

FifthSeasonCpi == {F(c) : c \in 0..9}

\* 14 players leave 98 training candidates
PageTables ==
    {Careers(14)} \cup {PageTable(MaxPagePlayers, cpi) : cpi \in FifthSeasonCpi}

InitPage ==
    /\ model_pc = "input" /\ player_df \in PageTables /\ model_data = <<>>
    /\ IdleTrain /\ IdleCPI /\ IdleBuild /\ IdleMin /\ IdleCache /\ IdleTeam

\* model, scaler, ... = train_model(X, y) on the X, y of get_model_data
TrainOnModelData ==
    /\ model_pc = "done"
    /\ train_pc = "idle"
    /\ \E test_rows \in TestSplits(cut(model_data.y)), models \in FittedModels :
       \E result \in {train_model(model_data.X, model_data.y, test_rows, models)} :
          /\ train_X' = model_data.X
          /\ train_y' = model_data.y
          /\ train_split' = IF result = NoModel THEN {} ELSE test_rows
          /\ trained' = result
          /\ train_pc' = IF result = NoModel THEN "no_model"
                         ELSE IF result = SplitRaises THEN "raised" ELSE "trained"
    /\ UNCHANGED <<selected_season, results_df, player_df, model_pc, model_data,
                   varsCPI, varsBuild, varsMin, varsCache, varsTeam>>

NextPage == GetModelData \/ TrainOnModelData

SpecPage == InitPage /\ [][NextPage]_vars

\* the targets of the rows train_test_split put into the training set
TrainTargets == SelectRows(train_y, DOMAIN train_y \ train_split)

\* the quartile bounds of a vector of targets
BoundsOf(Q1, Q3) == [lower_bound |-> LowerBound(Q1, Q3), upper_bound |-> UpperBound(Q1, Q3)]

QuartileBounds(sorted) ==
    BoundsOf(QuantileOfSorted(sorted, 1, 4), QuantileOfSorted(sorted, 3, 4))

\* C23 (as claimed): the test rows are a quarter of the rows, the training
\* rows are the others, and the outlier bounds get_model_data filtered with
\* are the quartile bounds of the targets of the training rows alone, so
\* that no held-out row has a part in them.
C23_TestRowsDoNotInfluenceFit ==
    train_pc = "trained" =>
        /\ train_split \subseteq DOMAIN train_y
        /\ Cardinality(train_split) = TestSize(Len(train_y))
        /\ Len(TrainTargets) + Cardinality(train_split) = Len(train_y)
        /\ Len(trained.predictions_train) = Len(TrainTargets)
        /\ Len(trained.predictions_test) = Cardinality(train_split)
        /\ [lower_bound |-> model_data.lower_bound,
            upper_bound |-> model_data.upper_bound]
               = QuartileBounds(SortedValues(TrainTargets, DOMAIN TrainTargets))

(***************************************************************************)
(* Specification SpecPredict: the page holds the trained ensemble and the  *)
(* player table and calls get_predictions on every rerun; get_model_data   *)
(* is applied to the same table                                            *)
(***************************************************************************)
\* mutant: the feature columns are written into the caller's frame
TableAfterPredictions_InPlace(df) == Engineer(sort_values(df))

\* the caller's table after get_predictions: sort_values returns a new frame
\* and the feature columns are assigned to that frame
TableAfterPredictions(df) == df

InitPredict ==
    /\ train_pc = "trained"
    /\ train_X = TrainingX(MinTrainRows) /\ train_y = TrainingY(MinTrainRows)
    /\ train_split = SeededSplit(MinTrainRows)
    /\ \E models \in FittedModels :
          trained = train_model(train_X, train_y, train_split, models)
    /\ player_df \in PredictionTables
    /\ selected_season = 0 /\ results_df = <<>>
    /\ model_pc = "input" /\ model_data = <<>>
    /\ IdleCPI /\ IdleBuild /\ IdleMin /\ IdleCache /\ IdleTeam

\* one run of the page: the season is read from the select box and the
\* predictions are made from the table and the ensemble the page holds;
\* transform and predict read the fitted objects
PredictSeason ==
    /\ train_pc \in {"trained", "predicted", "predicted_again"}
    /\ \E season \in PredictionSeasons :
       \E rows \in {get_predictions(player_df, season, trained.ensemble_model,
                                    enhanced_features)} :
       \E order \in [DOMAIN rows -> DOMAIN rows] :
          /\ SortedDescending(rows, order)
          /\ selected_season' = season
          /\ results_df' = [j \in DOMAIN rows |-> rows[order[j]]]
    /\ player_df' = TableAfterPredictions(player_df)
    /\ train_pc' = IF train_pc = "trained" THEN "predicted" ELSE "predicted_again"
    /\ UNCHANGED <<train_X, train_y, train_split, trained,
                   model_pc, model_data, varsCPI, varsBuild, varsMin, varsCache,
                   varsTeam>>

\* get_model_data is applied to the same table
NextPredict == PredictSeason \/ GetModelData

SpecPredict == InitPredict /\ [][NextPredict]_vars

engineered_features ==
    <<"CPI_2yr_avg", "PPG_clutch_2yr_avg", "FG_PCT_clutch_2yr_avg",
      "PPG_times_FG_PCT", "Games_consistency", "Clutch_volume",
      "experience", "PPG_stability">>

SameEngineered(a, b) ==
    \A f \in DOMAIN engineered_features :
        a[engineered_features[f]] = b[engineered_features[f]]

\* every record of `rows` with the season is among `enhanced`, with the same
\* engineered columns
FoundIn(rows, season, enhanced) ==
    \A k \in DOMAIN rows :
        rows[k].SEASON = season =>
            \E j \in DOMAIN enhanced :
                enhanced[j].index = rows[k].index /\ SameEngineered(enhanced[j], rows[k])

\* every record of `enhanced` has the engineered columns of the record with
\* its index label in `table`
AsIn(enhanced, table) ==
    \A j \in DOMAIN enhanced :
        \E k \in DOMAIN table :
            table[k].index = enhanced[j].index /\ SameEngineered(enhanced[j], table[k])

other_features == SelectRows(enhanced_features, {k \in DOMAIN enhanced_features :
                                                    enhanced_features[k] # "PPG_stability"})

\* the records of the selected season that lack none of the other features
CompleteButStability ==
    DropNa(FilterSeason(Engineer(sort_values(player_df)), selected_season),
           other_features)

\* C26 (as claimed): after the median fill PPG_stability is a number in every
\* record of the engineered table, whatever the table, so that every record
\* of the selected season that lacks none of the other features is predicted.
C26_StabilityAlwaysDefined ==
    train_pc \in {"predicted", "predicted_again"} =>
        /\ \A k \in DOMAIN player_df :
              Engineer(sort_values(player_df))[k].PPG_stability = "number"
        /\ Len(results_df) = Len(CompleteButStability)

\* C27 (as claimed): the target of every training row is the CPI of a record
\* of the same player in a strictly later season, also when the table holds
\* several records of one player in one season.
C27_TargetFromLaterSeason ==
    ModelDone =>
        \A k \in DOMAIN model_data.df_model :
            \E j \in DOMAIN player_df :
                /\ player_df[j].PLAYER_ID = model_data.df_model[k].PLAYER_ID
                /\ player_df[j].SEASON > model_data.df_model[k].SEASON
                /\ player_df[j].CPI = model_data.df_model[k].TARGET_CPI

\* the weighted sum of the normalized metrics of record i, before the games
\* factor and the clip
LowSum(normalized_metrics, i) ==
    LowWeightedSum(normalized_metrics, i, Len(MetricsToScale))

NormalizedMetrics ==
    [k \in DOMAIN MetricsToScale |-> NormalizedMetric(cpi_df, MetricsToScale[k])]

\* C28: for every low-volume record (GP_clutch in 1..4) of a table of finite
\* metrics, the weighted sum lies in [-0.15, 0.85], the CPI is that sum times
\* GP_clutch / 5 and lies in [-0.12, 0.68]; the clip at -2.0 changes nothing.
C28_LowTierCpiRange ==
    (CpiScored /\ CpiAllFinite /\ CpiLowRows # {}) =>
        \E normalized \in {NormalizedMetrics} :
            \A i \in CpiLowRows :
                \E weighted \in {LowSum(normalized, i)} :
                    /\ FGe(weighted, <<-3, 20>>)
                    /\ FLe(weighted, <<17, 20>>)
                    /\ cpi_df[i].CPI =
                           CpiNum(FMul(weighted, RNorm(cpi_df[i].GP_clutch, 5)))
                    /\ FGe(cpi_df[i].CPI.rat, <<-3, 25>>)
                    /\ FLe(cpi_df[i].CPI.rat, <<17, 25>>)

\* a table of finite metrics scored with a four-game record at CPI >= 0.6
\* and a low-volume record whose CPI is negative and was left unclipped
C28_Witness ==
    /\ CpiScored /\ CpiAllFinite
    /\ \E i, j \in CpiLowRows :
        /\ cpi_df[i].GP_clutch = 4
        /\ FGe(cpi_df[i].CPI.rat, <<3, 5>>)
        /\ FLt(cpi_df[j].CPI.rat, F(0))
        /\ cpi_df[j].CPI = CpiNum(FMul(LowSum(NormalizedMetrics, j),
                                       RNorm(cpi_df[j].GP_clutch, 5)))

\* run_processing has returned or died
RunEnded == pc \in {"done", "io_failed", "aborted", "crashed"}

\* C29: run_processing writes the two output tables all-or-nothing: when a
\* first run (no output file exists before it) has ended, also by an I/O
\* error during a write, either the player table and the team table of this
\* run are both on disk or neither output file is.
C29_OutputsAllOrNothing ==
    (run = 1 /\ RunEnded) =>
        \/ player_file = File(player_performance) /\ team_file = File(team_performance)
        \/ player_file = NoFile /\ team_file = NoFile

====
